---- MODULE Spec2Model ----
(***************************************************************************)
(* Verification model of s1isp (Sentinel-1 Instrument Source Packets       *)
(* decoder): the five Huffman tree walkers of huffman.c, the Cython        *)
(* wrapper decode() of _huffman.pyx, and the packet loop of decode_stream. *)
(***************************************************************************)
EXTENDS Integers, Sequences, FiniteSets, TLC

(* ------------------------------ bounds --------------------------------- *)
\* longest bit array handed directly to a huffman_brc<b> function
MaxBits == 10
\* longest data array handed to the Python level decode()
MaxData == 4
\* largest number of requested output samples (nout / nsamples)
MaxOut == 3
\* largest number of packets in a stream
MaxPackets == 3
\* largest User Data Field of a packet, in bytes
MaxUdf == 2
\* largest number of packets to skip
MaxSkip == 2
\* triples fed to the sub-commutated data re-assembler
MaxTriples == 66
\* out-of-sequence triples among them
MaxDisruptions == 1
\* byte patterns filling the Secondary Headers that are decoded
MaxPattern == 1
\* longest bit array of a decoding that is resumed
MaxResumeBits == 6
\* largest number_of_quads of a User Data Field
MaxQuads == 2
\* the values 0 .. MaxSwl of the swl field are tried, and two large ones
MaxSwl == 100

(* ----------------------------- constants ------------------------------- *)
\* content of an output element that was never written by a walker
FILL == 255
PRIMARY_HEADER_SIZE == 6
SECONDARY_HEADER_SIZE == 62

Bit == {0, 1}
BRCs == 0 .. 4

\* all bit arrays of length 0 .. n
BitArrays(n) == UNION {[1 .. k -> Bit] : k \in 0 .. n}

(* ------------------------ the five tree walkers ------------------------ *)
(* Each operator is the body of one iteration of the while loop of the    *)
(* corresponding C function.  w is the window of array elements starting  *)
(* at bits[idx]: w[1] = bits[idx], w[2] = bits[idx + 1], ...  The result  *)
(* is <<value stored in out[sample], number of idx++ executed>>.          *)

huffman_brc0_one_first(w) ==
    LET sign == w[1] IN
    IF w[2] # 0 THEN <<IF sign # 0 THEN 4 ELSE 0, 2>>
    ELSE IF w[3] # 0 THEN <<IF sign # 0 THEN 5 ELSE 1, 3>>
    ELSE IF w[4] # 0 THEN <<IF sign # 0 THEN 6 ELSE 2, 4>>
    ELSE <<IF sign # 0 THEN 7 ELSE 3, 4>>

huffman_brc0(w) ==
    LET sign == w[1] IN
    IF w[2] = 0 THEN <<IF sign # 0 THEN 4 ELSE 0, 2>>
    ELSE IF w[3] = 0 THEN <<IF sign # 0 THEN 5 ELSE 1, 3>>
    ELSE IF w[4] = 0 THEN <<IF sign # 0 THEN 6 ELSE 2, 4>>
    ELSE <<IF sign # 0 THEN 7 ELSE 3, 4>>

huffman_brc1_swapped(w) ==
    LET sign == w[1] IN
    IF w[2] = 0 THEN <<IF sign # 0 THEN 5 ELSE 0, 2>>
    ELSE IF w[3] = 0 THEN <<IF sign # 0 THEN 6 ELSE 1, 3>>
    ELSE IF w[4] = 0 THEN <<IF sign # 0 THEN 7 ELSE 2, 4>>
    ELSE IF w[5] = 0 THEN <<IF sign # 0 THEN 9 ELSE 4, 5>>
    ELSE <<IF sign # 0 THEN 8 ELSE 3, 5>>

huffman_brc1(w) ==
    LET sign == w[1] IN
    IF w[2] = 0 THEN <<IF sign # 0 THEN 5 ELSE 0, 2>>
    ELSE IF w[3] = 0 THEN <<IF sign # 0 THEN 6 ELSE 1, 3>>
    ELSE IF w[4] = 0 THEN <<IF sign # 0 THEN 7 ELSE 2, 4>>
    ELSE IF w[5] = 0 THEN <<IF sign # 0 THEN 8 ELSE 3, 5>>
    ELSE <<IF sign # 0 THEN 9 ELSE 4, 5>>

huffman_brc2_tree3(w) ==
    LET sign == w[1] IN
    IF w[2] = 0 THEN
        IF w[3] = 0 THEN <<IF sign # 0 THEN 7 ELSE 0, 3>>
        ELSE <<IF sign # 0 THEN 8 ELSE 1, 3>>
    ELSE IF w[3] = 0 THEN <<IF sign # 0 THEN 9 ELSE 2, 3>>
    ELSE IF w[4] = 0 THEN <<IF sign # 0 THEN 10 ELSE 3, 4>>
    ELSE IF w[5] = 0 THEN <<IF sign # 0 THEN 11 ELSE 4, 5>>
    ELSE IF w[6] = 0 THEN <<IF sign # 0 THEN 12 ELSE 5, 6>>
    ELSE <<IF sign # 0 THEN 13 ELSE 6, 6>>

huffman_brc2(w) ==
    LET sign == w[1] IN
    IF w[2] = 0 THEN <<IF sign # 0 THEN 7 ELSE 0, 2>>
    ELSE IF w[3] = 0 THEN <<IF sign # 0 THEN 8 ELSE 1, 3>>
    ELSE IF w[4] = 0 THEN <<IF sign # 0 THEN 9 ELSE 2, 4>>
    ELSE IF w[5] = 0 THEN <<IF sign # 0 THEN 10 ELSE 3, 5>>
    ELSE IF w[6] = 0 THEN <<IF sign # 0 THEN 11 ELSE 4, 6>>
    ELSE IF w[7] = 0 THEN <<IF sign # 0 THEN 12 ELSE 5, 7>>
    ELSE <<IF sign # 0 THEN 13 ELSE 6, 7>>

huffman_brc3(w) ==
    LET sign == w[1] IN
    IF w[2] = 0 THEN
        IF w[3] = 0 THEN <<IF sign # 0 THEN 10 ELSE 0, 3>>
        ELSE <<IF sign # 0 THEN 11 ELSE 1, 3>>
    ELSE IF w[3] = 0 THEN <<IF sign # 0 THEN 12 ELSE 2, 3>>
    ELSE IF w[4] = 0 THEN <<IF sign # 0 THEN 13 ELSE 3, 4>>
    ELSE IF w[5] = 0 THEN <<IF sign # 0 THEN 14 ELSE 4, 5>>
    ELSE IF w[6] = 0 THEN <<IF sign # 0 THEN 15 ELSE 5, 6>>
    ELSE IF w[7] = 0 THEN <<IF sign # 0 THEN 16 ELSE 6, 7>>
    ELSE IF w[8] = 0 THEN <<IF sign # 0 THEN 17 ELSE 7, 8>>
    ELSE IF w[9] = 0 THEN <<IF sign # 0 THEN 18 ELSE 8, 9>>
    ELSE <<IF sign # 0 THEN 19 ELSE 9, 9>>

huffman_brc4_sign8(w) ==
    LET sign == w[1] IN
    IF w[2] = 0 THEN
        IF w[3] = 0 THEN <<IF sign # 0 THEN 16 ELSE 0, 3>>
        ELSE IF w[4] = 0 THEN <<IF sign # 0 THEN 17 ELSE 1, 4>>
        ELSE <<IF sign # 0 THEN 18 ELSE 2, 4>>
    ELSE IF w[3] = 0 THEN
        IF w[4] = 0 THEN <<IF sign # 0 THEN 19 ELSE 3, 4>>
        ELSE <<IF sign # 0 THEN 20 ELSE 4, 4>>
    ELSE IF w[4] = 0 THEN
        IF w[5] = 0 THEN <<IF sign # 0 THEN 21 ELSE 5, 5>>
        ELSE <<IF sign # 0 THEN 22 ELSE 6, 5>>
    ELSE IF w[5] = 0 THEN <<IF sign # 0 THEN 23 ELSE 7, 5>>
    ELSE IF w[6] = 0 THEN <<IF sign # 0 THEN 24 ELSE 8, 6>>
    ELSE IF w[7] = 0 THEN <<IF sign # 0 THEN 25 ELSE 9, 7>>
    ELSE IF w[8] = 0 THEN
        IF w[9] = 0 THEN <<IF sign # 0 THEN 26 ELSE 10, 9>>
        ELSE <<IF sign # 0 THEN 27 ELSE 11, 9>>
    ELSE IF w[9] = 0 THEN
        IF w[10] = 0 THEN <<IF sign # 0 THEN 28 ELSE 12, 10>>
        ELSE <<IF sign # 0 THEN 21 ELSE 13, 10>>
    ELSE IF w[10] = 0 THEN <<IF sign # 0 THEN 30 ELSE 14, 10>>
    ELSE <<IF sign # 0 THEN 31 ELSE 15, 10>>

huffman_brc4(w) ==
    LET sign == w[1] IN
    IF w[2] = 0 THEN
        IF w[3] = 0 THEN <<IF sign # 0 THEN 16 ELSE 0, 3>>
        ELSE IF w[4] = 0 THEN <<IF sign # 0 THEN 17 ELSE 1, 4>>
        ELSE <<IF sign # 0 THEN 18 ELSE 2, 4>>
    ELSE IF w[3] = 0 THEN
        IF w[4] = 0 THEN <<IF sign # 0 THEN 19 ELSE 3, 4>>
        ELSE <<IF sign # 0 THEN 20 ELSE 4, 4>>
    ELSE IF w[4] = 0 THEN
        IF w[5] = 0 THEN <<IF sign # 0 THEN 21 ELSE 5, 5>>
        ELSE <<IF sign # 0 THEN 22 ELSE 6, 5>>
    ELSE IF w[5] = 0 THEN <<IF sign # 0 THEN 23 ELSE 7, 5>>
    ELSE IF w[6] = 0 THEN <<IF sign # 0 THEN 24 ELSE 8, 6>>
    ELSE IF w[7] = 0 THEN <<IF sign # 0 THEN 25 ELSE 9, 7>>
    ELSE IF w[8] = 0 THEN
        IF w[9] = 0 THEN <<IF sign # 0 THEN 26 ELSE 10, 9>>
        ELSE <<IF sign # 0 THEN 27 ELSE 11, 9>>
    ELSE IF w[9] = 0 THEN
        IF w[10] = 0 THEN <<IF sign # 0 THEN 28 ELSE 12, 10>>
        ELSE <<IF sign # 0 THEN 29 ELSE 13, 10>>
    ELSE IF w[10] = 0 THEN <<IF sign # 0 THEN 30 ELSE 14, 10>>
    ELSE <<IF sign # 0 THEN 31 ELSE 15, 10>>

\* largest number of array elements one loop iteration of walker b can read
MaxRead(b) == CASE b = 0 -> 4 [] b = 1 -> 5 [] b = 2 -> 7 [] b = 3 -> 9
                [] OTHER -> 10

\* the if / elif chain of decode() that selects the walker
Walker(b, w) == CASE b = 0 -> huffman_brc0(w)
                  [] b = 1 -> huffman_brc1(w)
                  [] b = 2 -> huffman_brc2(w)
                  [] b = 3 -> huffman_brc3(w)
                  [] OTHER -> huffman_brc4(w)

(* --------------------- code tables of the five trees ------------------- *)
\* largest magnitude of tree b
magmax(b) == CASE b = 0 -> 3 [] b = 1 -> 4 [] b = 2 -> 6 [] b = 3 -> 9
               [] OTHER -> 15

\* Codewords(b)[m + 1] is the path of branch conditions (0 = the tested
\* element is zero) that leads to the leaf storing magnitude m in tree b
Codewords(b) ==
    CASE b = 0 -> << <<0>>, <<1,0>>, <<1,1,0>>, <<1,1,1>> >>
      [] b = 1 -> << <<0>>, <<1,0>>, <<1,1,0>>, <<1,1,1,0>>, <<1,1,1,1>> >>
      [] b = 2 -> << <<0>>, <<1,0>>, <<1,1,0>>, <<1,1,1,0>>, <<1,1,1,1,0>>,
                     <<1,1,1,1,1,0>>, <<1,1,1,1,1,1>> >>
      [] b = 3 -> << <<0,0>>, <<0,1>>, <<1,0>>, <<1,1,0>>, <<1,1,1,0>>,
                     <<1,1,1,1,0>>, <<1,1,1,1,1,0>>, <<1,1,1,1,1,1,0>>,
                     <<1,1,1,1,1,1,1,0>>, <<1,1,1,1,1,1,1,1>> >>
      [] OTHER -> << <<0,0>>, <<0,1,0>>, <<0,1,1>>, <<1,0,0>>, <<1,0,1>>,
                     <<1,1,0,0>>, <<1,1,0,1>>, <<1,1,1,0>>, <<1,1,1,1,0>>,
                     <<1,1,1,1,1,0>>, <<1,1,1,1,1,1,0,0>>,
                     <<1,1,1,1,1,1,0,1>>, <<1,1,1,1,1,1,1,0,0>>,
                     <<1,1,1,1,1,1,1,0,1>>, <<1,1,1,1,1,1,1,1,0>>,
                     <<1,1,1,1,1,1,1,1,1>> >>

Codeword(b, m) == Codewords(b)[m + 1]

\* a signed sample is <<sign bit, magnitude>>
Samples(b) == Bit \X (0 .. magmax(b))

\* the value decode() documents for a signed sample:
\* [0, 1, 2, 3, -0, -1, -2, -3] --> [0, 1, 2, 3, 4, 5, 6, 7]
Code(b, smp) == IF smp[1] = 0 THEN smp[2] ELSE magmax(b) + 1 + smp[2]

\* the bit string of a sample sequence: per sample the sign bit, then the
\* codeword of the magnitude
RECURSIVE Encode(_, _)
Encode(b, s) ==
    IF s = <<>> THEN <<>>
    ELSE <<s[1][1]>> \o Codeword(b, s[1][2]) \o Encode(b, Tail(s))

RECURSIVE EncodedLen(_, _)
EncodedLen(b, s) ==
    IF s = <<>> THEN 0
    ELSE 1 + Len(Codeword(b, s[1][2])) + EncodedLen(b, Tail(s))

\* the sequences of exactly n samples whose bit string has at most room bits
RECURSIVE SeqsWithin(_, _, _)
SeqsWithin(b, n, room) ==
    IF n = 0 THEN {<<>>}
    ELSE UNION {{<<x>> \o t :
                    t \in SeqsWithin(b, n - 1,
                                     room - 1 - Len(Codeword(b, x[2])))} :
                x \in {y \in Samples(b) :
                          1 + Len(Codeword(b, y[2])) <= room}}

\* the sample sequences of at most MaxOut samples whose bit string fits
EncodableSeqs(b) == UNION {SeqsWithin(b, n, MaxBits) : n \in 0 .. MaxOut}

(* ------------------------------- state --------------------------------- *)
VARIABLES
    pc,        \* "idle", "loop" (inside a walker), "ret" (walker returned),
               \* "done" (decode() finished), "fault" (invalid access trapped)
    caller,    \* "none", "c" (walker called directly), "py" (via decode())
    brc,       \* the selected tree
    bits,      \* the unpacked bit array; nbits is its length
    nout,      \* requested number of samples (nsamples of decode())
    out,       \* the output array
    idx,       \* walker: index of the next element of bits
    sample,    \* walker: number of samples written
    ret,       \* the value returned by the walker
    starts,    \* history: value of idx at the start of every iteration
    oob,       \* history: an element bits[i] with i >= nbits was read
    src,       \* the sample sequence the bit array was built from, if any
    encoded,   \* TRUE iff bits was built from src
    count,     \* the count flag of decode()
    result,    \* outcome of decode(): "none", "returned" or the exception
    retdata,   \* array returned by decode()
    retcount   \* bit count returned by decode(), -1 if none is returned

hvars == <<pc, caller, brc, bits, nout, out, idx, sample, ret, starts, oob,
           src, encoded, count, result, retdata, retcount>>

VARIABLES
    sstate,       \* "Idle", "Scanning", "Decoding" or "Done"
    stream,       \* the packets of the input, in wire order
    flen,         \* length of the input in bytes
    fpos,         \* read position in the input, in bytes
    skip,         \* option: number of packets to skip
    maxcount,     \* option: largest number of packets to decode
    bytes_offset, \* option: position of the first packet to read
    nskipped,     \* number of packets skipped so far
    records,      \* output: the decoded records
    offsets,      \* output: the byte offset of every decoded packet
    subcom,       \* output: the sub-commutated data triples
    serror        \* "none" or the terminal error of the stream

svars == <<sstate, stream, flen, fpos, skip, maxcount, bytes_offset,
           nskipped, records, offsets, subcom, serror>>

\* state of the sub-commutated data re-assembler
VARIABLES
    rstate,     \* "Idle", "Accumulating" or "FrameReady"
    acc,        \* data words of the frame being accumulated
    last_pri,   \* pri_count of the last triple received
    frames,     \* frames emitted so far
    nfed,       \* number of triples received
    ndisrupt,   \* number of out-of-sequence triples received
    last_index, \* data_word_index of the last triple received
    inorder     \* every triple so far carried index nfed, without PRI gap

rvars == <<rstate, acc, last_pri, frames, nfed, ndisrupt, last_index,
          inorder>>

\* state of the Secondary Header notebook
VARIABLES
    hstate,     \* "Empty", "Read", "Nested", "Decoded" or "Called"
    shdata,     \* the 62 bytes of a Secondary Header (data)
    sh,         \* the record decoded with the nested descriptor
    fsh,        \* the record decoded with the flat descriptor
    called,     \* the method of fsh that was called, with its check argument
    returned    \* what the call returned or raised

dvars == <<hstate, shdata, sh, fsh, called, returned>>

\* history of a decoding that is resumed at the returned bit position
VARIABLES
    phase,      \* "none", "whole", "first" or "second": the call in progress
    allbits,    \* the bit array of the whole decoding
    whole,      \* out and return value of the decoding of n1 + n2 samples
    first       \* out and return value of the decoding of the first n1

qvars == <<phase, allbits, whole, first>>

\* state of the User Data Field decoder
VARIABLES
    ustate,     \* "Idle", "Interleaves" or "Done"
    bindata,    \* the bytes of the User Data Field
    unq,        \* number_of_quads
    baqmod,     \* baq_mode
    tstmod,     \* test_mode
    cursor,     \* bit cursor in bindata
    brcs,       \* BRC selected by the block of Ie
    ileaves,    \* the interleaves decoded so far, in the order Ie, Io, Qe, Qo
    udata,      \* the complex samples returned, as <<I, Q>> pairs
    uerror,     \* "none" or the error of the decoding
    usrc        \* the sign choices bindata was built from, per interleave

uvars == <<ustate, bindata, unq, baqmod, tstmod, cursor, brcs, ileaves, udata,
           uerror, usrc>>

\* state of a call of get_swl_n3rx_samples
VARIABLES
    nstate,     \* "Idle", "Lookup" or "Done"
    swl,        \* the swl field of the header
    rdcode,     \* the range_decimation field of the header
    n3_b,       \* local b
    n3_c,       \* local c
    n3rx        \* what the call returned or raised

nvars == <<nstate, swl, rdcode, n3_b, n3_c, n3rx>>

vars == <<hvars, svars, rvars, dvars, qvars, uvars, nvars>>

nbits == Len(bits)

Filled(n) == [k \in 1 .. n |-> FILL]

HuffmanInit ==
    /\ pc = "idle" /\ caller = "none"
    /\ brc = 0 /\ bits = <<>> /\ nout = 0 /\ out = <<>>
    /\ idx = 0 /\ sample = 0 /\ ret = 0
    /\ starts = <<>> /\ oob = FALSE
    /\ src = <<>> /\ encoded = FALSE
    /\ count = FALSE /\ result = "none" /\ retdata = <<>> /\ retcount = -1

\* entry of a walker: int idx = 0; int sample = 0;
Enter(who, b, bs, n, o) ==
    /\ caller' = who /\ brc' = b /\ bits' = bs /\ nout' = n /\ out' = o
    /\ idx' = 0 /\ sample' = 0
    /\ starts' = <<>> /\ oob' = FALSE

\* a direct call huffman_brc<b>(nbits, bits, nout, out) on an arbitrary
\* bit array; the caller's out array has one element more than nout
CallWalker ==
    /\ pc = "idle"
    /\ \E b \in BRCs, bs \in BitArrays(MaxBits), n \in 0 .. MaxOut :
          Enter("c", b, bs, n, Filled(n + 1))
    /\ pc' = "loop"
    /\ UNCHANGED <<ret, src, encoded, count, result, retdata, retcount>>
    /\ UNCHANGED <<svars, rvars, dvars, qvars, uvars, nvars>>

\* a direct call huffman_brc<b> on the bit string of a sample sequence,
\* with nout = number of samples
CallEncoded ==
    /\ pc = "idle"
    /\ \E b \in BRCs : \E s \in EncodableSeqs(b) :
          /\ Enter("c", b, Encode(b, s), Len(s), Filled(Len(s) + 1))
          /\ src' = s
    /\ encoded' = TRUE
    /\ pc' = "loop"
    /\ UNCHANGED <<ret, count, result, retdata, retcount>>
    /\ UNCHANGED <<svars, rvars, dvars, qvars, uvars, nvars>>

ValidBrc_upper(b) == b <= 4

\* if not 0 <= brc <= 4
ValidBrc(b) == 0 <= b /\ b <= 4

\* decode(data, nsamples, brc, out, count) up to the call of the walker.
\* outlen = -1 stands for out=None, otherwise it is out.shape[0]
decode ==
    /\ pc = "idle"
    /\ \E data \in BitArrays(MaxData), nsamples \in 0 .. MaxOut,
          b \in -1 .. 5, outlen \in -1 .. MaxOut + 1, cnt \in BOOLEAN :
          /\ count' = cnt
          /\ IF Len(data) < 1 THEN
                /\ Enter("py", b, data, nsamples,
                         IF outlen = -1 THEN <<>> ELSE Filled(outlen))
                /\ result' = "ValueError: The input 'data' array is empty."
                /\ pc' = "done" /\ ret' = ret
             ELSE IF ~ValidBrc(b) THEN
                /\ Enter("py", b, data, nsamples,
                         IF outlen = -1 THEN <<>> ELSE Filled(outlen))
                /\ result' = "ValueError: Invalid BRC"
                /\ pc' = "done" /\ ret' = ret
             ELSE IF outlen # -1 /\ outlen < nsamples THEN
                /\ Enter("py", b, data, nsamples, Filled(outlen))
                /\ result' = "ValueError: Output array size is too small"
                /\ pc' = "done" /\ ret' = ret
             ELSE
                /\ Enter("py", b, data, nsamples,
                         IF outlen = -1 THEN Filled(nsamples)
                         ELSE Filled(outlen))
                /\ result' = result
                \* no branch of the if / elif chain matches: idx stays 0
                /\ IF b \in BRCs THEN pc' = "loop" /\ ret' = ret
                   ELSE pc' = "ret" /\ ret' = 0
    /\ UNCHANGED <<src, encoded, retdata, retcount>>
    /\ UNCHANGED <<svars, rvars, dvars, qvars, uvars, nvars>>

LoopCond_samples_only == sample < nout

LoopCond_bits_only == idx < nbits

\* while ((idx < nbits) && (sample < nout))
LoopCond == idx < nbits /\ sample < nout

\* number of elements past the end of bits an iteration may touch
Overrun == IF idx + MaxRead(brc) > nbits THEN idx + MaxRead(brc) - nbits
           ELSE 0

\* the elements bits[idx], bits[idx + 1], ... as the walker sees them; an
\* element past the end of the array has an arbitrary value, given by tail
Window(tail) ==
    [k \in 1 .. MaxRead(brc) |->
        IF idx + k <= nbits THEN bits[idx + k] ELSE tail[idx + k - nbits]]

\* one iteration of the while loop: decode one sample into out[sample]
Iterate ==
    /\ pc = "loop" /\ LoopCond
    /\ \E tail \in [1 .. Overrun -> Bit] :
          LET r == Walker(brc, Window(tail)) IN
          /\ out' = [out EXCEPT ![sample + 1] = r[1]]
          /\ idx' = idx + r[2]
          /\ oob' = (oob \/ idx + r[2] > nbits)
    /\ sample' = sample + 1
    /\ starts' = Append(starts, idx)
    /\ UNCHANGED <<pc, caller, brc, bits, nout, ret, src, encoded, count,
                   result, retdata, retcount>>
    /\ UNCHANGED <<svars, rvars, dvars, qvars, uvars, nvars>>

\* an iteration that reads past the end of bits may also be trapped
Fault ==
    /\ pc = "loop" /\ LoopCond
    /\ \E tail \in [1 .. Overrun -> Bit] :
          idx + Walker(brc, Window(tail))[2] > nbits
    /\ pc' = "fault"
    /\ oob' = TRUE
    /\ UNCHANGED <<caller, brc, bits, nout, out, idx, sample, ret, starts,
                   src, encoded, count, result, retdata, retcount>>
    /\ UNCHANGED <<svars, rvars, dvars, qvars, uvars, nvars>>

\* return (sample != nout) ? -idx : idx;
Return ==
    /\ pc = "loop" /\ ~LoopCond
    /\ ret' = IF sample # nout THEN -idx ELSE idx
    /\ pc' = "ret"
    /\ UNCHANGED <<caller, brc, bits, nout, out, idx, sample, starts, oob,
                   src, encoded, count, result, retdata, retcount>>
    /\ UNCHANGED <<svars, rvars, dvars, qvars, uvars, nvars>>

\* decode() after the walker: if idx < 0: raise ...; return out[, idx]
decode_return ==
    /\ pc = "ret" /\ caller = "py"
    /\ IF ret < 0 THEN
          /\ result' = "HuffmanDecodingError"
          /\ UNCHANGED <<retdata, retcount>>
       ELSE
          /\ result' = "returned"
          /\ retdata' = out
          /\ retcount' = IF count THEN ret ELSE -1
    /\ pc' = "done"
    /\ UNCHANGED <<caller, brc, bits, nout, out, idx, sample, ret, starts,
                   oob, src, encoded, count>>
    /\ UNCHANGED <<svars, rvars, dvars, qvars, uvars, nvars>>


(* ------------------------- resumed decoding ---------------------------- *)
ResumeInit ==
    /\ phase = "none" /\ allbits = <<>>
    /\ whole = [out |-> <<>>, ret |-> 0, nout |-> 0, oob |-> FALSE]
    /\ first = [out |-> <<>>, ret |-> 0, nout |-> 0, oob |-> FALSE]

\* huffman_brc<b>(nbits, bits, n1 + n2, out) on an arbitrary bit array
CallWhole ==
    /\ pc = "idle" /\ phase = "none"
    /\ \E b \in BRCs, bs \in BitArrays(MaxResumeBits), n \in 0 .. MaxOut :
          /\ Enter("c", b, bs, n, Filled(n + 1))
          /\ allbits' = bs
    /\ phase' = "whole"
    /\ pc' = "loop"
    /\ UNCHANGED <<ret, src, encoded, count, result, retdata, retcount>>
    /\ UNCHANGED <<whole, first>>
    /\ UNCHANGED <<svars, rvars, dvars, uvars, nvars>>

\* after the whole decoding succeeded: huffman_brc<b>(nbits, bits, n1, out)
ResumeFirst ==
    /\ pc = "ret" /\ phase = "whole" /\ ret >= 0
    /\ \E n1 \in 0 .. nout : Enter("c", brc, allbits, n1, Filled(n1 + 1))
    /\ whole' = [out |-> out, ret |-> ret, nout |-> nout, oob |-> oob]
    /\ phase' = "first"
    /\ pc' = "loop"
    /\ UNCHANGED <<ret, src, encoded, count, result, retdata, retcount>>
    /\ UNCHANGED <<allbits, first>>
    /\ UNCHANGED <<svars, rvars, dvars, uvars, nvars>>

\* the next block starts at the returned bit count r1:
\* huffman_brc<b>(nbits - r1, bits + r1, n2, out)
ResumeSecond ==
    /\ pc = "ret" /\ phase = "first" /\ ret >= 0
    /\ Enter("c", brc, SubSeq(allbits, ret + 1, Len(allbits)),
             whole.nout - nout, Filled(whole.nout - nout + 1))
    /\ first' = [out |-> out, ret |-> ret, nout |-> nout, oob |-> oob]
    /\ phase' = "second"
    /\ pc' = "loop"
    /\ UNCHANGED <<ret, src, encoded, count, result, retdata, retcount>>
    /\ UNCHANGED <<allbits, whole>>
    /\ UNCHANGED <<svars, rvars, dvars, uvars, nvars>>

(* --------------------------- packet streams ---------------------------- *)
\* the k-th packet of a stream, with a User Data Field of u bytes
Packet(k, u) ==
    [packet_data_length |-> SECONDARY_HEADER_SIZE + u - 1,
     space_packet_count |-> k - 1,
     pri_count          |-> 1000 + k,
     data_word_index    |-> ((k - 1) % 64) + 1,
     data_word          |-> 100 + k]

Streams ==
    UNION {{[k \in 1 .. n |-> Packet(k, us[k])] : us \in [1 .. n -> 0 .. MaxUdf]} :
            n \in 0 .. MaxPackets}

\* Total packet size on wire = 6 + packet_data_length + 1
PacketSize(p) == PRIMARY_HEADER_SIZE + p.packet_data_length + 1

\* byte position of the k-th packet of st (k = Len(st) + 1: end of st)
RECURSIVE StartOf(_, _)
StartOf(st, k) ==
    IF k = 1 THEN 0 ELSE StartOf(st, k - 1) + PacketSize(st[k - 1])

\* number of bytes missing at the end of a truncated input
Cuts == {1, 60, 65}

\* the input holds every packet of st, or ends inside the last one
FileLengths(st) ==
    {StartOf(st, Len(st) + 1)} \cup
    (IF st = <<>> THEN {} ELSE {StartOf(st, Len(st) + 1) - c : c \in Cuts})

\* index of the packet of the stream that starts at byte pos
PacketAt(pos) == CHOOSE k \in 1 .. Len(stream) : StartOf(stream, k) = pos

\* the record emitted for a packet: Primary and Secondary Header fields
Record(p) ==
    [ph |-> [packet_data_length |-> p.packet_data_length],
     sh |-> [space_packet_count |-> p.space_packet_count,
             pri_count          |-> p.pri_count,
             data_word_index    |-> p.data_word_index,
             data_word          |-> p.data_word]]

StreamInit ==
    /\ sstate = "Idle"
    /\ stream = <<>> /\ flen = 0 /\ fpos = 0
    /\ skip = 0 /\ maxcount = 0 /\ bytes_offset = 0 /\ nskipped = 0
    /\ records = <<>> /\ offsets = <<>> /\ subcom = <<>>
    /\ serror = "none"

\* decode_stream(source, skip, maxcount, bytes_offset): seek to bytes_offset.
\* maxcount = MaxPackets + 1 stands for no limit
decode_stream ==
    /\ sstate = "Idle"
    /\ \E st \in Streams, sk \in 0 .. MaxSkip, mc \in 0 .. MaxPackets + 1 :
       \E fl \in FileLengths(st),
          bo \in {0} \cup (IF Len(st) >= 2 THEN {StartOf(st, 2)} ELSE {}) :
          /\ stream' = st /\ flen' = fl
          /\ skip' = sk /\ maxcount' = mc /\ bytes_offset' = bo
          /\ fpos' = bo
          /\ sstate' = IF sk > 0 THEN "Scanning" ELSE "Decoding"
    /\ nskipped' = 0
    /\ records' = <<>> /\ offsets' = <<>> /\ subcom' = <<>>
    /\ serror' = "none"
    /\ UNCHANGED <<hvars, rvars, dvars, qvars, uvars, nvars>>

Complete_header_only(pos) == pos + PRIMARY_HEADER_SIZE <= flen

\* the packet that starts at byte pos lies wholly within the input
Complete(pos) ==
    /\ pos + PRIMARY_HEADER_SIZE <= flen
    /\ pos + PacketSize(stream[PacketAt(pos)]) <= flen

MoreToDecode_inclusive == Len(records) <= maxcount

\* for each subsequent packet up to max-count
MoreToDecode == Len(records) < maxcount

SkipPacket_emitting ==
    /\ sstate = "Scanning"
    /\ Complete(fpos)
    /\ fpos' = fpos + PacketSize(stream[PacketAt(fpos)])
    /\ nskipped' = nskipped + 1
    /\ sstate' = IF nskipped + 1 = skip THEN "Decoding" ELSE "Scanning"
    /\ records' = Append(records, Record(stream[PacketAt(fpos)]))
    /\ UNCHANGED <<stream, flen, skip, maxcount, bytes_offset,
                   offsets, subcom, serror>>
    /\ UNCHANGED <<hvars, rvars, dvars, qvars, uvars, nvars>>

\* skip one packet: read its Primary Header only and advance past the rest
SkipPacket ==
    /\ sstate = "Scanning"
    /\ Complete(fpos)
    /\ fpos' = fpos + PacketSize(stream[PacketAt(fpos)])
    /\ nskipped' = nskipped + 1
    /\ sstate' = IF nskipped + 1 = skip THEN "Decoding" ELSE "Scanning"
    /\ UNCHANGED <<stream, flen, skip, maxcount, bytes_offset, records,
                   offsets, subcom, serror>>
    /\ UNCHANGED <<hvars, rvars, dvars, qvars, uvars, nvars>>

\* decode one packet: read PH (6 B), SH (62 B) and the User Data Field
\* (packet_data_length + 1 - 62 B); emit the record, its offset and the
\* sub-commutated data triple
DecodePacket ==
    /\ sstate = "Decoding"
    /\ MoreToDecode
    /\ Complete(fpos)
    /\ LET p == stream[PacketAt(fpos)] IN
       /\ offsets' = Append(offsets, fpos)
       /\ records' = Append(records, Record(p))
       /\ subcom' = Append(subcom,
                           <<p.data_word_index, p.data_word, p.pri_count>>)
       /\ fpos' = fpos + PRIMARY_HEADER_SIZE + SECONDARY_HEADER_SIZE
                    + (p.packet_data_length + 1 - SECONDARY_HEADER_SIZE)
    /\ UNCHANGED <<sstate, stream, flen, skip, maxcount, bytes_offset,
                   nskipped, serror>>
    /\ UNCHANGED <<hvars, rvars, dvars, qvars, uvars, nvars>>

\* the requested number of packets has been decoded
CountReached ==
    /\ sstate = "Decoding"
    /\ ~MoreToDecode
    /\ sstate' = "Done"
    /\ UNCHANGED <<stream, flen, fpos, skip, maxcount, bytes_offset,
                   nskipped, records, offsets, subcom, serror>>
    /\ UNCHANGED <<hvars, rvars, dvars, qvars, uvars, nvars>>

\* EOF between packets terminates normally
EndOfInput ==
    /\ sstate \in {"Scanning", "Decoding"}
    /\ sstate = "Decoding" => MoreToDecode
    /\ fpos >= flen
    /\ sstate' = "Done"
    /\ UNCHANGED <<stream, flen, fpos, skip, maxcount, bytes_offset,
                   nskipped, records, offsets, subcom, serror>>
    /\ UNCHANGED <<hvars, rvars, dvars, qvars, uvars, nvars>>

\* the input ends in the middle of the packet that is to be read or skipped
Truncated ==
    /\ sstate \in {"Scanning", "Decoding"}
    /\ sstate = "Decoding" => MoreToDecode
    /\ fpos < flen
    /\ ~Complete(fpos)
    /\ sstate' = "Done"
    /\ serror' = "TruncatedStream"
    /\ UNCHANGED <<stream, flen, fpos, skip, maxcount, bytes_offset,
                   nskipped, records, offsets, subcom>>
    /\ UNCHANGED <<hvars, rvars, dvars, qvars, uvars, nvars>>

(* ------------- the reference-data notebook's view of records ----------- *)
sizes_without_length_bias ==
    [k \in 1 .. Len(records) |->
        PRIMARY_HEADER_SIZE + records[k].ph.packet_data_length]

\* sizes = [PHSIZE + ph.packet_data_length + 1 for ph, *_ in records]
sizes ==
    [k \in 1 .. Len(records) |->
        PRIMARY_HEADER_SIZE + records[k].ph.packet_data_length + 1]

\* itertools.accumulate: the running sums of a list
RECURSIVE accumulate(_)
accumulate(l) ==
    IF l = <<>> THEN <<>>
    ELSE LET head == accumulate(SubSeq(l, 1, Len(l) - 1))
         IN Append(head, (IF head = <<>> THEN 0 ELSE head[Len(head)])
                          + l[Len(l)])

\* offsets = list(itertools.accumulate([0] + sizes))
accumulated_offsets == accumulate(<<0>> \o sizes)

record_of_target_next(packet_count) ==
    records[IF packet_count + 2 <= Len(records) THEN packet_count + 2 ELSE 1]

\* ph, sh, _ = records[target.packet_count]
record_of_target(packet_count) == records[packet_count + 1]

(* ------------------ sub-commutated data re-assembler ------------------- *)
\* a frame has 64 slots of one 16-bit data word each
FRAME_WORDS == 64

\* the data word carried by the n-th triple: distinct words, both bytes used
DataWord(n) == (259 * n) % 65536

WordBytes_low_first(w) == <<w % 256, w \div 256>>

\* the two bytes of a data word, most significant first
WordBytes(w) == <<w \div 256, w % 256>>

NewFrame_keeping(w) == Append(acc, w)

\* the accumulator of a frame that starts with data word w
NewFrame(w) == <<w>>

RECURSIVE FrameBytes(_)
FrameBytes(ws) ==
    IF ws = <<>> THEN <<>>
    ELSE FrameBytes(SubSeq(ws, 1, Len(ws) - 1)) \o WordBytes(ws[Len(ws)])

\* a frame as emitted; its last word came with triple number n, first is
\* the number of the triple that started it
Frame(ws, partial, n) ==
    [bytes |-> FrameBytes(ws), partial |-> partial, first |-> n + 1 - Len(ws)]

SubcomInit ==
    /\ rstate = "Idle"
    /\ acc = <<>> /\ last_pri = 0 /\ frames = <<>>
    /\ nfed = 0 /\ ndisrupt = 0 /\ last_index = 0 /\ inorder = TRUE

\* the slot the next triple of the frame in progress has to carry
ExpectedIndex == IF rstate = "Accumulating" THEN Len(acc) + 1 ELSE 1

\* the re-assembler receives the triple (index, DataWord, pri_count); late
\* tells that PRI counts were lost since the previous triple
Feed(index, late) ==
    LET w == DataWord(nfed + 1) IN
    /\ nfed < MaxTriples
    /\ (late \/ index # ExpectedIndex) => ndisrupt < MaxDisruptions
    /\ nfed' = nfed + 1
    /\ last_index' = index
    /\ ndisrupt' = IF late \/ index # ExpectedIndex THEN ndisrupt + 1
                   ELSE ndisrupt
    /\ inorder' = (inorder /\ index = nfed + 1 /\ ~late)
    /\ last_pri' = last_pri + (IF late THEN 2 ELSE 1)
    /\ IF rstate # "Accumulating"
       THEN IF index = 1
            THEN \* first index = 1 seen: a frame starts
                 /\ rstate' = "Accumulating"
                 /\ acc' = NewFrame(w)
                 /\ UNCHANGED frames
            ELSE \* nothing is accumulated
                 UNCHANGED <<rstate, acc, frames>>
       ELSE IF index = 1
            THEN \* reset: the incomplete frame is emitted as-is, a new
                 \* frame starts with this triple
                 /\ frames' = Append(frames, Frame(acc, TRUE, nfed))
                 /\ acc' = NewFrame(w)
                 /\ UNCHANGED rstate
            ELSE IF index = Len(acc) + 1 /\ ~late
            THEN IF index = FRAME_WORDS
                 THEN \* 64 consecutive triples: the frame is closed
                      /\ frames' = Append(frames, Frame(Append(acc, w), FALSE,
                                                     nfed + 1))
                      /\ acc' = <<>>
                      /\ rstate' = "FrameReady"
                 ELSE /\ acc' = Append(acc, w)
                      /\ UNCHANGED <<rstate, frames>>
            ELSE \* out of sequence: the frame cannot be closed
                 /\ frames' = Append(frames, Frame(acc, TRUE, nfed))
                 /\ acc' = <<>>
                 /\ rstate' = "Idle"
    /\ UNCHANGED <<hvars, svars, dvars, qvars, uvars, nvars>>

SubcomNext ==
    \E index \in {1, Len(acc) + 1, Len(acc) + 2} \cap (1 .. FRAME_WORDS),
       late \in BOOLEAN : Feed(index, late)

(* ---------------------- Secondary Header descriptors ------------------ *)
\* a field of a descriptor: offset is the explicit offset=... of the
\* declaration, or -1 when the declaration gives none
Field(name, type, size, offset) ==
    [name |-> name, type |-> type, size |-> size, offset |-> offset,
     fields |-> <<>>]

\* the flat SecondaryHeader, as generated: "u" unsigned integer, "S" bytes,
\* "bool", "enum"
FlatFields ==
    << Field("coarse_time", "u", 32, -1),
       Field("fine_time", "u", 16, -1),
       Field("sync_marker", "u", 32, -1),
       Field("data_take_id", "u", 32, -1),
       Field("ecc_num", "enum", 8, -1),
       Field("test_mode", "enum", 3, 121),
       Field("rx_channel_id", "enum", 4, -1),
       Field("instrument_configuration_id", "u", 32, -1),
       Field("data_word_index", "u", 8, -1),
       Field("data_word", "S", 16, -1),
       Field("space_packet_count", "u", 32, -1),
       Field("pri_count", "u", 32, -1),
       Field("error_flag", "bool", 1, -1),
       Field("baq_mode", "enum", 5, 251),
       Field("baq_block_length", "u", 8, -1),
       Field("range_decimation", "enum", 8, 272),
       Field("rx_gain", "u", 8, -1),
       Field("tx_ramp_rate", "u", 16, -1),
       Field("tx_pulse_start_freq", "u", 16, -1),
       Field("tx_pulse_length", "u", 24, -1),
       Field("rank", "u", 5, 347),
       Field("pri", "u", 24, -1),
       Field("swst", "u", 24, -1),
       Field("swl", "u", 24, -1),
       Field("ssb_flag", "bool", 1, -1),
       Field("polarization", "enum", 3, -1),
       Field("temperature_compensation", "enum", 2, -1),
       Field("_dynamic_data", "u", 4, 432),
       Field("_beam_address", "u", 10, 438),
       Field("cal_mode", "enum", 2, -1),
       Field("tx_pulse_number", "u", 5, 451),
       Field("signal_type", "enum", 4, -1),
       Field("swap", "bool", 1, 463),
       Field("swath_number", "u", 8, -1),
       Field("number_of_quads", "u", 16, -1) >>

FlatNames == {FlatFields[i].name : i \in 1 .. Len(FlatFields)}

\* position of the field called name in the list of fields fs
IndexOf(fs, name) == CHOOSE i \in 1 .. Len(fs) : fs[i].name = name

RECURSIVE FieldOffset_packed(_, _)
FieldOffset_packed(fs, i) ==
    IF i = 1 THEN 0 ELSE FieldOffset_packed(fs, i - 1) + fs[i - 1].size

\* bit offset of the i-th field of fs: the explicit one, else the end of the
\* field declared before it (preoffset = offset + size)
RECURSIVE FieldOffset(_, _)
FieldOffset(fs, i) ==
    IF fs[i].offset # -1 THEN fs[i].offset
    ELSE IF i = 1 THEN 0
    ELSE FieldOffset(fs, i - 1) + fs[i - 1].size

\* the unsigned integer held by a sequence of bits, most significant first
RECURSIVE BitsValue(_)
BitsValue(bs) ==
    IF bs = <<>> THEN 0
    ELSE 2 * BitsValue(SubSeq(bs, 1, Len(bs) - 1)) + bs[Len(bs)]

\* the value of a field of the given type and size found at bit offset off;
\* a field wider than 24 bits is held as its 16-bit halves, most significant
\* first, to stay within the integers of the model
FieldValue(bs, type, size, off) ==
    LET raw == IF size > 24
               THEN <<BitsValue(SubSeq(bs, off + 1, off + size - 16)),
                      BitsValue(SubSeq(bs, off + size - 15, off + size))>>
               ELSE BitsValue(SubSeq(bs, off + 1, off + size))
    IN CASE type = "bool" -> raw # 0
         [] type = "S"    -> <<raw \div 256, raw % 256>>
         [] OTHER         -> raw

\* FlatSecondaryHeader.frombytes(data): the record of the flat descriptor
FlatDecode(bs) ==
    [n \in FlatNames |->
        LET i == IndexOf(FlatFields, n)
        IN FieldValue(bs, FlatFields[i].type, FlatFields[i].size,
                      FieldOffset(FlatFields, i))]

\* a field of a nested descriptor that is itself a descriptor of class type
Descriptor(name, type, offset, fields) ==
    [name |-> name, type |-> type, size |-> 0, offset |-> offset,
     fields |-> fields]

\* the nested SecondaryHeader: six services, SasData and SesData inside the
\* Radar Configuration Support service. Offsets are relative to the
\* enclosing descriptor, as bpack.fields() reports them
NestedFields ==
    << Descriptor("datation", "DatationService", 0,
         << Field("coarse_time", "u", 32, 0),
            Field("fine_time", "u", 16, 32) >>),
       Descriptor("fixed_ancillary_data", "FixedAncillaryDataService", 48,
         << Field("sync_marker", "u", 32, 0),
            Field("data_take_id", "u", 32, 32),
            Field("ecc_num", "enum", 8, 64),
            Field("test_mode", "enum", 3, 73),
            Field("rx_channel_id", "enum", 4, 76),
            Field("instrument_configuration_id", "u", 32, 80) >>),
       Descriptor("subcom_ancillary_data",
                  "SubCommutatedAncillaryDataService", 160,
         << Field("data_word_index", "u", 8, 0),
            Field("data_word", "S", 16, 8) >>),
       Descriptor("counters", "CountersService", 184,
         << Field("space_packet_count", "u", 32, 0),
            Field("pri_count", "u", 32, 32) >>),
       Descriptor("radar_configuration_support",
                  "RadarConfigurationSupportService", 248,
         << Field("error_flag", "bool", 1, 0),
            Field("baq_mode", "enum", 5, 3),
            Field("baq_block_length", "u", 8, 8),
            Field("range_decimation", "enum", 8, 24),
            Field("rx_gain", "u", 8, 32),
            Field("tx_ramp_rate", "u", 16, 40),
            Field("tx_pulse_start_freq", "u", 16, 56),
            Field("tx_pulse_length", "u", 24, 72),
            Field("rank", "u", 5, 99),
            Field("pri", "u", 24, 104),
            Field("swst", "u", 24, 128),
            Field("swl", "u", 24, 152),
            Descriptor("sas", "SasData", 176,
              << Field("ssb_flag", "bool", 1, 0),
                 Field("polarization", "enum", 3, 1),
                 Field("temperature_compensation", "enum", 2, 4),
                 Field("_dynamic_data", "u", 4, 8),
                 Field("_beam_address", "u", 10, 14) >>),
            Descriptor("ses", "SesData", 200,
              << Field("cal_mode", "enum", 2, 0),
                 Field("tx_pulse_number", "u", 5, 3),
                 Field("signal_type", "enum", 4, 8),
                 Field("swap", "bool", 1, 15),
                 Field("swath_number", "u", 8, 16) >>) >>),
       Descriptor("radar_sample_count", "RadarSampleCountService", 472,
         << Field("number_of_quads", "u", 16, 0) >>) >>

is_descriptor(f) == f.fields # <<>>

RECURSIVE flat_fields_iterator_relative(_, _)
flat_fields_iterator_relative(fs, offset) ==
    IF fs = <<>> THEN <<>>
    ELSE LET f == Head(fs)
         IN (IF is_descriptor(f)
             THEN flat_fields_iterator_relative(f.fields, f.offset)
             ELSE <<f>>)
            \o flat_fields_iterator_relative(Tail(fs), offset)

\* the fields of a descriptor, nested descriptors replaced by their fields,
\* each with its offset relative to the beginning of the root descriptor
RECURSIVE flat_fields_iterator(_, _)
flat_fields_iterator(fs, offset) ==
    IF fs = <<>> THEN <<>>
    ELSE LET f == Head(fs)
             fd_offset == f.offset + offset
         IN (IF is_descriptor(f)
             THEN flat_fields_iterator(f.fields, fd_offset)
             ELSE <<[f EXCEPT !.offset = fd_offset]>>)
            \o flat_fields_iterator(Tail(fs), offset)

\* the field declarations printed for a list of flat fields: offset=... is
\* printed only where the field does not start at the end of the previous
RECURSIVE gen_fields(_, _)
gen_fields(ffs, preoffset) ==
    IF ffs = <<>> THEN <<>>
    ELSE LET f == Head(ffs)
         IN <<[f EXCEPT !.offset = IF f.offset # preoffset THEN f.offset
                                   ELSE -1]>>
            \o gen_fields(Tail(ffs), f.offset + f.size)

gen_flat_descriptor_code(fs) == gen_fields(flat_fields_iterator(fs, 0), 0)

\* SecondaryHeader.frombytes(data) for a (nested) descriptor: the record of
\* class type with one value per field, in the order of the fields
RECURSIVE NestedDecode(_, _, _, _)
NestedDecode(bs, type, fs, base) ==
    [class |-> type,
     args  |-> [i \in 1 .. Len(fs) |->
                  IF is_descriptor(fs[i])
                  THEN NestedDecode(bs, fs[i].type, fs[i].fields,
                                    base + fs[i].offset)
                  ELSE FieldValue(bs, fs[i].type, fs[i].size,
                                  base + fs[i].offset)]]

\* the bits of a byte string, most significant bit of each byte first
UnpackBits(bytes) ==
    [k \in 1 .. 8 * Len(bytes) |->
        (bytes[(k - 1) \div 8 + 1] \div (2 ^ (7 - ((k - 1) % 8)))) % 2]

\* headers to decode: bytes of a pattern p, and a 24-bit SAS block (bytes
\* 53 .. 55) made of its first 6 bits and its last 18 bits
SasHeads == {9, 31, 41, 63}
SasTails ==
    {a * 4096 + b * 1024 + c :
        a \in {2, 5, 10, 61}, b \in 0 .. 2, c \in {0, 1, 513, 1023}}
    \cup {a * 4096 + 513 : a \in 0 .. 15}

HeaderBytes(p, head, tail) ==
    LET v == head * 262144 + tail
    IN [j \in 1 .. SECONDARY_HEADER_SIZE |->
          CASE j = 54 -> v \div 65536
            [] j = 55 -> (v \div 256) % 256
            [] j = 56 -> v % 256
            [] OTHER  -> (37 * p * j) % 256]

Headers ==
    {HeaderBytes(p, head, tail) :
        p \in 0 .. MaxPattern, head \in SasHeads, tail \in SasTails}

(* methods of the flat SecondaryHeader; r is the record (self) *)
Returns(v) == [raised |-> FALSE, value |-> v]
Raises(e) == [raised |-> TRUE, value |-> e]

\* an instance of a class built from positional arguments
New(class, args) == [class |-> class, args |-> args]

\* enumerations look the raw integer up in the variant table; unknown
\* codes are preserved rather than rejected
ECalType(code) == New("ECalType", <<code>>)
ESasTestMode(code) == New("ESasTestMode", <<code>>)

get_azimuth_beam_address_dynamic(r, check) ==
    IF check /\ r["ssb_flag"] THEN Raises("TypeError")
    ELSE Returns(r["_dynamic_data"])

get_azimuth_beam_address(r, check) ==
    IF check /\ r["ssb_flag"] THEN Raises("TypeError")
    ELSE Returns(r["_beam_address"])

\* ECalType(self._dynamic_data & 0b00000111)
get_cal_type(r, check) ==
    IF check /\ ~r["ssb_flag"] THEN Raises("TypeError")
    ELSE Returns(ECalType(r["_dynamic_data"] % 8))

get_calibration_beam_address(r, check) ==
    IF check /\ ~r["ssb_flag"] THEN Raises("TypeError")
    ELSE Returns(r["_beam_address"])

get_elevation_beam_address_cal_guard(r, check) ==
    IF check /\ ~r["ssb_flag"] THEN Raises("TypeError")
    ELSE Returns(r["_dynamic_data"])

get_elevation_beam_address(r, check) ==
    IF check /\ r["ssb_flag"] THEN Raises("TypeError")
    ELSE Returns(r["_dynamic_data"])

get_sas_test_low_bit(r, check) ==
    IF check /\ ~r["ssb_flag"] THEN Raises("TypeError")
    ELSE Returns(ESasTestMode(r["_dynamic_data"] % 2))

\* ESasTestMode((self._dynamic_data >> 3) & 0b0000001)
get_sas_test(r, check) ==
    IF check /\ ~r["ssb_flag"] THEN Raises("TypeError")
    ELSE Returns(ESasTestMode((r["_dynamic_data"] \div 8) % 2))

\* the first of the calls cs that raised, else the instance built from the
\* values head followed by the values the calls returned
Build(class, head, cs) ==
    IF \E i \in 1 .. Len(cs) : cs[i].raised
    THEN cs[CHOOSE i \in 1 .. Len(cs) :
                /\ cs[i].raised
                /\ \A j \in 1 .. i - 1 : ~cs[j].raised]
    ELSE Returns(New(class, head \o [i \in 1 .. Len(cs) |-> cs[i].value]))

get_sas_data(r) ==
    LET head == <<r["ssb_flag"], r["polarization"],
                  r["temperature_compensation"]>>
    IN IF ~r["ssb_flag"]
       THEN Build("SasImgData", head,
                  <<get_elevation_beam_address(r, TRUE),
                    get_azimuth_beam_address(r, TRUE)>>)
       ELSE Build("SasCalData", head,
                  <<get_sas_test(r, TRUE), get_cal_type(r, TRUE),
                    get_calibration_beam_address(r, TRUE)>>)

get_datation(r) ==
    New("DatationService", <<r["coarse_time"], r["fine_time"]>>)

get_fixed_ancillary_data(r) ==
    New("FixedAncillaryDataService",
        <<r["sync_marker"], r["data_take_id"], r["ecc_num"], r["test_mode"],
          r["rx_channel_id"], r["instrument_configuration_id"]>>)

get_subcom_ancillary_data(r) ==
    New("SubCommutatedAncillaryDataService",
        <<r["data_word_index"], r["data_word"]>>)

get_counters(r) ==
    New("CountersService", <<r["space_packet_count"], r["pri_count"]>>)

get_sas(r) ==
    New("SasData",
        <<r["ssb_flag"], r["polarization"], r["temperature_compensation"],
          r["_dynamic_data"], r["_beam_address"]>>)

get_ses_swapped(r) ==
    New("SesData",
        <<r["tx_pulse_number"], r["cal_mode"], r["signal_type"], r["swap"],
          r["swath_number"]>>)

get_ses(r) ==
    New("SesData",
        <<r["cal_mode"], r["tx_pulse_number"], r["signal_type"], r["swap"],
          r["swath_number"]>>)

get_radar_configuration_support(r) ==
    New("RadarConfigurationSupportService",
        <<r["error_flag"], r["baq_mode"], r["baq_block_length"],
          r["range_decimation"], r["rx_gain"], r["tx_ramp_rate"],
          r["tx_pulse_start_freq"], r["tx_pulse_length"], r["rank"],
          r["pri"], r["swst"], r["swl"], get_sas(r), get_ses(r)>>)

get_radar_sample_count(r) ==
    New("RadarSampleCountService", <<r["number_of_quads"]>>)

(* the notebook: read a header, decode it with both descriptors, call a
   method of the flat record *)
HeaderInit ==
    /\ hstate = "Empty"
    /\ shdata = <<>> /\ sh = <<>> /\ fsh = <<>>
    /\ called = <<"none", FALSE>>
    /\ returned = Returns(<<>>)

\* data = data[PHSIZE:PHSIZE+SHSIZE]
ReadHeader ==
    /\ hstate = "Empty"
    /\ \E h \in Headers : shdata' = h
    /\ hstate' = "Read"
    /\ UNCHANGED <<sh, fsh, called, returned>>
    /\ UNCHANGED <<hvars, svars, rvars, qvars, uvars, nvars>>

\* sh = SecondaryHeader.frombytes(data)
nested_frombytes ==
    /\ hstate = "Read"
    /\ sh' = NestedDecode(UnpackBits(shdata), "SecondaryHeader",
                          NestedFields, 0)
    /\ hstate' = "Nested"
    /\ UNCHANGED <<shdata, fsh, called, returned>>
    /\ UNCHANGED <<hvars, svars, rvars, qvars, uvars, nvars>>

\* fsh = FlatSecondaryHeader.frombytes(data)
flat_frombytes ==
    /\ hstate = "Nested"
    /\ fsh' = FlatDecode(UnpackBits(shdata))
    /\ hstate' = "Decoded"
    /\ UNCHANGED <<shdata, sh, called, returned>>
    /\ UNCHANGED <<hvars, svars, rvars, qvars, uvars, nvars>>

\* fsh.<method>(check) is called and returns or raises res
Call(method, check, res) ==
    /\ hstate = "Decoded"
    /\ called' = <<method, check>>
    /\ returned' = res
    /\ hstate' = "Called"
    /\ UNCHANGED <<shdata, sh, fsh>>
    /\ UNCHANGED <<hvars, svars, rvars, qvars, uvars, nvars>>

HeaderNext ==
    \/ ReadHeader
    \/ nested_frombytes
    \/ flat_frombytes
    \/ \E check \in BOOLEAN :
          Call("get_azimuth_beam_address", check,
               get_azimuth_beam_address(fsh, check))
    \/ \E check \in BOOLEAN :
          Call("get_cal_type", check, get_cal_type(fsh, check))
    \/ \E check \in BOOLEAN :
          Call("get_calibration_beam_address", check,
               get_calibration_beam_address(fsh, check))
    \/ \E check \in BOOLEAN :
          Call("get_elevation_beam_address", check,
               get_elevation_beam_address(fsh, check))
    \/ \E check \in BOOLEAN :
          Call("get_sas_test", check, get_sas_test(fsh, check))
    \/ Call("get_sas_data", TRUE, get_sas_data(fsh))
    \/ Call("get_datation", TRUE, Returns(get_datation(fsh)))
    \/ Call("get_fixed_ancillary_data", TRUE,
            Returns(get_fixed_ancillary_data(fsh)))
    \/ Call("get_subcom_ancillary_data", TRUE,
            Returns(get_subcom_ancillary_data(fsh)))
    \/ Call("get_counters", TRUE, Returns(get_counters(fsh)))
    \/ Call("get_sas", TRUE, Returns(get_sas(fsh)))
    \/ Call("get_ses", TRUE, Returns(get_ses(fsh)))
    \/ Call("get_radar_configuration_support", TRUE,
            Returns(get_radar_configuration_support(fsh)))
    \/ Call("get_radar_sample_count", TRUE,
            Returns(get_radar_sample_count(fsh)))

(* --------------------------- User Data Field --------------------------- *)
\* the n bits of v, most significant first
BitsOf(v, n) == [k \in 1 .. n |-> (v \div (2 ^ (n - k))) % 2]

\* position of the next 16-bit word boundary
Align16(pos) == ((pos + 15) \div 16) * 16

\* each interleave pads to the next 16-bit boundary
Pad16(bs) == bs \o [k \in 1 .. Align16(Len(bs)) - Len(bs) |-> 0]

\* the 10-bit code of sample k of interleave j of a bypass packet
BypassCode(j, k, ch) == IF ch = 0 THEN 8 * j + k ELSE 512 + 8 * j + k

\* the signed sample k of interleave j of an FDBAQ packet of tree b
FdbaqSample(b, j, k, ch) == <<ch, (j + 2 * k) % (magmax(b) + 1)>>

RECURSIVE BypassBits(_, _, _, _)
BypassBits(j, ch, k, nq) ==
    IF k > nq THEN <<>>
    ELSE BitsOf(BypassCode(j, k, (ch + k) % 2), 10) \o
         BypassBits(j, ch, k + 1, nq)

\* the User Data Field of a bypass packet: Ie, Io, Qe, Qo
BypassUdf(chs, nq) ==
    Pad16(BypassBits(1, chs[1], 1, nq)) \o
    Pad16(BypassBits(2, chs[2], 1, nq)) \o
    Pad16(BypassBits(3, chs[3], 1, nq)) \o
    Pad16(BypassBits(4, chs[4], 1, nq))

\* the User Data Field of an FDBAQ packet; up to 128 quads make one block
\* per interleave:
\* sel is the BRC selector, ti the threshold index
FdbaqUdf(sel, ti, chs, nq) ==
    LET b == IF sel \in BRCs THEN sel ELSE 0
        smps(j) == [k \in 1 .. nq |->
                      FdbaqSample(b, j, k, (chs[j] + k) % 2)]
    IN Pad16(BitsOf(sel, 3) \o Encode(b, smps(1))) \o
       Pad16(Encode(b, smps(2))) \o
       Pad16(BitsOf(ti, 8) \o Encode(b, smps(3))) \o
       Pad16(BitsOf(ti, 8) \o Encode(b, smps(4)))

\* baq_mode = BYPASS or test_mode = BYPASS
IsBypass == baqmod = "BYPASS" \/ tstmod = "BYPASS"

\* sign from the MSB of the 10-bit word, magnitude 0..511
Bypass10(code) == IF code >= 512 THEN -(code - 512) ELSE code

\* sign and magnitude of the code a tree walker stores
Signed(b, code) ==
    IF code > magmax(b) THEN -(code - magmax(b) - 1) ELSE code

\* n 10-bit samples starting at bit pos of bs
BypassRun(bs, pos, n) ==
    IF pos + 10 * n > Len(bs)
    THEN [eof |-> TRUE, vals |-> <<>>, pos |-> pos]
    ELSE [eof |-> FALSE,
          vals |-> [k \in 1 .. n |->
                      Bypass10(BitsValue(SubSeq(bs, pos + 10 * (k - 1) + 1,
                                                pos + 10 * k)))],
          pos |-> pos + 10 * n]

\* n Huffman-coded samples of tree b starting at bit pos of bs
RECURSIVE HuffRun(_, _, _, _)
HuffRun(b, bs, pos, n) ==
    IF n = 0 THEN [eof |-> FALSE, vals |-> <<>>, pos |-> pos]
    ELSE LET w == [k \in 1 .. MaxRead(b) |->
                     IF pos + k <= Len(bs) THEN bs[pos + k] ELSE 0]
             r == Walker(b, w)
         IN IF pos + r[2] > Len(bs)
            THEN [eof |-> TRUE, vals |-> <<>>, pos |-> pos]
            ELSE LET rest == HuffRun(b, bs, pos + r[2], n - 1)
                 IN [eof  |-> rest.eof,
                     vals |-> <<Signed(b, r[1])>> \o rest.vals,
                     pos  |-> rest.pos]

interleave_blockwise(ie, io, qe, qo) ==
    [i \in 1 .. 2 * Len(ie) |->
        IF i <= Len(ie) THEN <<ie[i], qe[i]>>
        ELSE <<io[i - Len(ie)], qo[i - Len(ie)]>>]

\* I[0]=Ie[0], Q[0]=Qe[0], I[1]=Io[0], Q[1]=Qo[0], I[2]=Ie[1], ...
interleave(ie, io, qe, qo) ==
    [i \in 1 .. 2 * Len(ie) |->
        IF i % 2 = 1 THEN <<ie[(i + 1) \div 2], qe[(i + 1) \div 2]>>
        ELSE <<io[i \div 2], qo[i \div 2]>>]

UdfInit ==
    /\ ustate = "Idle"
    /\ bindata = <<>> /\ unq = 0 /\ baqmod = "BYPASS" /\ tstmod = "DEFAULT"
    /\ cursor = 0 /\ brcs = 0 /\ ileaves = <<>> /\ udata = <<>>
    /\ uerror = "none" /\ usrc = <<0, 0, 0, 0>>

\* decode_ud(bindata, nq, baqmod, tstmod) up to the first interleave; the
\* input is a whole User Data Field, or one that lost its last word
decode_ud ==
    /\ ustate = "Idle"
    \* mode: baq_mode, test_mode and the BRC selector of the block
    /\ \E nq \in 0 .. MaxQuads, cut \in BOOLEAN,
          mode \in {<<"BYPASS", "DEFAULT", 0>>, <<"FDBAQ", "BYPASS", 0>>}
                      \cup {<<"FDBAQ", "DEFAULT", sel>> : sel \in 0 .. 5} :
       \E chs \in [1 .. 4 -> 0 .. 1] :
          LET all == IF mode[1] = "BYPASS" \/ mode[2] = "BYPASS"
                     THEN BypassUdf(chs, nq)
                     ELSE FdbaqUdf(mode[3], 37, chs, nq)
              bytes == [j \in 1 .. Len(all) \div 8 |->
                          BitsValue(SubSeq(all, 8 * j - 7, 8 * j))]
          IN /\ cut => nq > 0
             /\ bindata' = IF cut THEN SubSeq(bytes, 1, Len(bytes) - 2)
                           ELSE bytes
             /\ unq' = nq /\ baqmod' = mode[1] /\ tstmod' = mode[2]
             /\ usrc' = chs
             \* number_of_quads = 0 (return empty sequence)
             /\ ustate' = IF nq = 0 THEN "Done" ELSE "Interleaves"
    /\ cursor' = 0 /\ brcs' = 0 /\ ileaves' = <<>> /\ udata' = <<>>
    /\ uerror' = "none"
    /\ UNCHANGED <<hvars, svars, rvars, dvars, qvars, nvars>>

\* decode the next interleave, in the order Ie, Io, Qe, Qo
DecodeInterleave ==
    /\ ustate = "Interleaves" /\ Len(ileaves) < 4
    /\ LET bs  == UnpackBits(bindata)
           j   == Len(ileaves) + 1
           \* what precedes the samples: the BRC selector in Ie, the
           \* threshold index in Qe and Qo, nothing in a bypass packet
           pre == IF IsBypass THEN 0
                  ELSE IF j = 1 THEN 3 ELSE IF j \in {3, 4} THEN 8 ELSE 0
           sel == IF j = 1 /\ ~IsBypass /\ cursor + 3 <= Len(bs)
                  THEN BitsValue(SubSeq(bs, cursor + 1, cursor + 3))
                  ELSE brcs
           run == IF IsBypass THEN BypassRun(bs, cursor, unq)
                  ELSE HuffRun(IF sel \in BRCs THEN sel ELSE 0, bs,
                               cursor + pre, unq)
       IN IF cursor + pre > Len(bs) \/ run.eof THEN
             /\ uerror' = "UnexpectedEof" /\ ustate' = "Done"
             /\ UNCHANGED <<cursor, brcs, ileaves>>
          ELSE IF ~(sel \in BRCs) THEN
             /\ uerror' = "InvalidBrc" /\ ustate' = "Done"
             /\ UNCHANGED <<cursor, brcs, ileaves>>
          ELSE
             /\ brcs' = sel
             /\ ileaves' = Append(ileaves, run.vals)
             /\ cursor' = Align16(run.pos)
             /\ UNCHANGED <<uerror, ustate>>
    /\ UNCHANGED <<bindata, unq, baqmod, tstmod, udata, usrc>>
    /\ UNCHANGED <<hvars, svars, rvars, dvars, qvars, nvars>>

\* re-interleave the four interleaves in acquisition order and return
ReInterleave ==
    /\ ustate = "Interleaves" /\ Len(ileaves) = 4
    /\ udata' = interleave(ileaves[1], ileaves[2], ileaves[3], ileaves[4])
    /\ ustate' = "Done"
    /\ UNCHANGED <<bindata, unq, baqmod, tstmod, cursor, brcs, ileaves,
                   uerror, usrc>>
    /\ UNCHANGED <<hvars, svars, rvars, dvars, qvars, nvars>>

UdfNext ==
    \/ decode_ud
    \/ DecodeInterleave
    \/ ReInterleave

(* ------------------------- N3Rx sample count --------------------------- *)
\* decimation ratio (numerator, denominator) and filter length Nf of the
\* range decimation codes 0, 1, 3 .. 11
lookup_range_decimation_info(code) ==
    CASE code = 0 -> [numerator |-> 3, denominator |-> 4, filter_length |-> 28]
      [] code = 1 -> [numerator |-> 2, denominator |-> 3, filter_length |-> 28]
      [] code = 3 -> [numerator |-> 5, denominator |-> 9, filter_length |-> 32]
      [] code = 4 -> [numerator |-> 4, denominator |-> 9, filter_length |-> 40]
      [] code = 5 -> [numerator |-> 3, denominator |-> 8, filter_length |-> 48]
      [] code = 6 -> [numerator |-> 1, denominator |-> 3, filter_length |-> 52]
      [] code = 7 -> [numerator |-> 1, denominator |-> 6, filter_length |-> 92]
      [] code = 8 -> [numerator |-> 3, denominator |-> 7, filter_length |-> 36]
      [] code = 9 -> [numerator |-> 5, denominator |-> 16,
                      filter_length |-> 68]
      [] code = 10 -> [numerator |-> 3, denominator |-> 26,
                       filter_length |-> 120]
      [] OTHER -> [numerator |-> 4, denominator |-> 11, filter_length |-> 44]

\* filter_output_offset = 80 + Nf/4
lookup_filter_output_offset(code) ==
    80 + lookup_range_decimation_info(code).filter_length \div 4

\* the D-value table of a range decimation code, indexed by c = 0, 1, ...
DValues(code) ==
    CASE code = 0 -> <<1, 1, 2, 3>>
      [] code = 1 -> <<1, 1, 2>>
      [] code = 3 -> <<1, 1, 2, 2, 3, 3, 4, 4, 5>>
      [] code = 4 -> <<0, 1, 1, 2, 2, 3, 3, 4, 4>>
      [] code = 5 -> <<0, 1, 1, 1, 2, 2, 3, 3>>
      [] code = 6 -> <<0, 0, 1>>
      [] code = 7 -> <<0, 0, 0, 0, 0, 1>>
      [] code = 8 -> <<0, 1, 1, 2, 2, 3, 3>>
      [] code = 9 -> <<0, 0, 1, 1, 1, 2, 2, 2, 2, 3, 3, 3, 4, 4, 4, 5>>
      [] code = 10 -> <<0, 0, 0, 0, 0, 0, 0, 1, 1, 1, 1, 1, 1, 1, 1, 1, 2, 2,
                        2, 2, 2, 2, 2, 3, 3, 3>>
      [] OTHER -> <<0, 1, 1, 1, 2, 2, 3, 3, 3, 4, 4>>

int_truediv_rounding(x, y) == (2 * x + y) \div (2 * y)

\* int(x / y) for y > 0: the quotient truncated toward zero
int_truediv(x, y) == IF x >= 0 THEN x \div y ELSE -((-x) \div y)

N3rxInit ==
    /\ nstate = "Idle" /\ swl = 0 /\ rdcode = 0
    /\ n3_b = 0 /\ n3_c = 0 /\ n3rx = Returns(0)

\* get_swl_n3rx_samples up to the D-value lookup
get_swl_n3rx_samples ==
    /\ nstate = "Idle"
    /\ \E s \in (0 .. MaxSwl) \cup {12178, 16777215},
          code \in {0, 1, 3, 4, 5, 6, 7, 8, 9, 10, 11} :
          LET rdinfo == lookup_range_decimation_info(code)
              den == rdinfo.denominator
              nf == rdinfo.filter_length
              filter_output_offset == 80 + nf \div 4
              b == 2 * s - filter_output_offset - 17
          IN /\ swl' = s /\ rdcode' = code
             /\ IF filter_output_offset # lookup_filter_output_offset(code)
                THEN /\ n3rx' = Raises("AssertionError")
                     /\ nstate' = "Done"
                     /\ UNCHANGED <<n3_b, n3_c>>
                ELSE /\ n3_b' = b
                     /\ n3_c' = b - den * int_truediv(b, den)
                     /\ nstate' = "Lookup"
                     /\ n3rx' = n3rx
    /\ UNCHANGED <<hvars, svars, rvars, dvars, qvars, uvars>>

\* d = lookup_d_value(rdcode, c); return 2 * (num * int(b / den) + d + 1).
\* A negative c either counts from the end of the table or is rejected.
lookup_d_value ==
    /\ nstate = "Lookup"
    /\ LET rdinfo == lookup_range_decimation_info(rdcode)
           num == rdinfo.numerator
           den == rdinfo.denominator
           table == DValues(rdcode)
           value(d) == Returns(2 * (num * int_truediv(n3_b, den) + d + 1))
       IN \/ /\ 0 <= n3_c /\ n3_c < Len(table)
             /\ n3rx' = value(table[n3_c + 1])
          \/ /\ n3_c < 0 /\ Len(table) + n3_c >= 0
             /\ n3rx' = value(table[Len(table) + n3_c + 1])
          \/ /\ n3_c < 0 \/ n3_c >= Len(table)
             /\ n3rx' = Raises("IndexError")
    /\ nstate' = "Done"
    /\ UNCHANGED <<swl, rdcode, n3_b, n3_c>>
    /\ UNCHANGED <<hvars, svars, rvars, dvars, qvars, uvars>>

N3rxNext ==
    \/ get_swl_n3rx_samples
    \/ lookup_d_value

Init ==
    /\ HuffmanInit /\ StreamInit /\ SubcomInit /\ HeaderInit
    /\ ResumeInit /\ UdfInit /\ N3rxInit

SpecUdf == Init /\ [][UdfNext]_vars

SpecN3rx == Init /\ [][N3rxNext]_vars

ResumeNext ==
    \/ CallWhole
    \/ Iterate
    \/ Fault
    \/ Return
    \/ ResumeFirst
    \/ ResumeSecond

SpecResume == Init /\ [][ResumeNext]_vars

SpecSubcom == Init /\ [][SubcomNext]_vars

SpecHeader == Init /\ [][HeaderNext]_vars

Next ==
    \/ CallWalker
    \/ CallEncoded
    \/ decode
    \/ Iterate
    \/ Fault
    \/ Return
    \/ decode_return

Spec == Init /\ [][Next]_vars

StreamNext ==
    \/ decode_stream
    \/ SkipPacket
    \/ DecodePacket
    \/ CountReached
    \/ EndOfInput
    \/ Truncated

SpecStream == Init /\ [][StreamNext]_vars

\* direct calls of the walkers on short bit arrays
TermNext ==
    \/ CallWhole
    \/ Iterate
    \/ Fault
    \/ Return

\* a called C function keeps executing: its loop takes steps until it
\* returns or is trapped
SpecTermination ==
    Init /\ [][TermNext]_vars /\ WF_vars(Iterate \/ Fault \/ Return)

\* the steps of the loop of a running decode_stream
StreamLoop ==
    \/ SkipPacket
    \/ DecodePacket
    \/ CountReached
    \/ EndOfInput
    \/ Truncated

\* the decoder is single-threaded and synchronous with blocking reads: once
\* called, its loop keeps taking steps until it returns
SpecStreamFair == Init /\ [][StreamNext]_vars /\ WF_vars(StreamLoop)

TypeOK ==
    /\ pc \in {"idle", "loop", "ret", "done", "fault"}
    /\ sample \in 0 .. MaxOut
    /\ idx \in 0 .. MaxBits + 10

(* ---------------------- samples seen by a walker ----------------------- *)
\* the k-th sample (k = 1 .. sample) was read from bits[SampleStart(k)] up
\* to, not including, bits[SampleEnd(k)]
SampleStart(k) == starts[k]
SampleEnd(k) == IF k < sample THEN starts[k + 1] ELSE idx
\* the sample was read without touching an element past the end of bits
InBounds(k) == SampleEnd(k) <= nbits
SignOf(k) == bits[SampleStart(k) + 1]
CodewordOf(k) == SubSeq(bits, SampleStart(k) + 2, SampleEnd(k))
\* the sample is the signed sample <<sign, m>>
IsSample(k, sign, m) == SignOf(k) = sign /\ CodewordOf(k) = Codeword(brc, m)

\* position after n complete samples of tree b starting at element pos of
\* bs, or -1 when bs ends before the n-th sample is complete
RECURSIVE ParseEnd(_, _, _, _)
ParseEnd(b, bs, pos, n) ==
    IF n = 0 THEN pos
    ELSE LET fit == {m \in 0 .. magmax(b) :
                        /\ pos + 1 + Len(Codeword(b, m)) <= Len(bs)
                        /\ SubSeq(bs, pos + 2, pos + 1 + Len(Codeword(b, m)))
                              = Codeword(b, m)}
         IN IF fit = {} THEN -1
            ELSE LET m == CHOOSE x \in fit : TRUE
                 IN ParseEnd(b, bs, pos + 1 + Len(Codeword(b, m)), n - 1)

(* ------------------------------- claims -------------------------------- *)

\* C1: Huffman round trip. When a walker returns from a call whose bit
\* array is the encoding of a sample sequence s (per sample the sign bit,
\* then the codeword of the magnitude) and whose nout is len(s), out holds
\* exactly the codes of s and the return value is len(s) sign bits plus the
\* sum of the codeword lengths.
C1_RoundTrip ==
    (pc = "ret" /\ encoded) =>
        /\ sample = Len(src)
        /\ \A k \in 1 .. Len(src) : out[k] = Code(brc, src[k])
        /\ ret = EncodedLen(brc, src)

C1_Witness ==
    /\ pc = "ret" /\ encoded /\ brc = 4
    /\ Len(src) = 2 /\ src[1] = <<1, 7>> /\ src[2] = <<0, 1>>
    /\ out[1] = 23 /\ out[2] = 1 /\ ret = 9

\* C2 (as claimed): the return value of a walker is the non-negative number
\* of input bits consumed exactly when nout samples were produced, and a
\* negative value whose magnitude is the bit position reached whenever the
\* input was exhausted before nout samples were produced.
C2_ReturnValue ==
    (pc = "ret" /\ caller = "c") =>
        /\ (ParseEnd(brc, bits, 0, nout) # -1) <=> (ret >= 0)
        /\ ret >= 0 => ret = ParseEnd(brc, bits, 0, nout)
        /\ ret < 0 => -ret = idx

\* C3 (as claimed): decode(data, nsamples, brc) with non-empty data and a
\* valid brc raises HuffmanDecodingError whenever data does not hold
\* nsamples complete samples, and otherwise returns exactly nsamples values
\* and, with count, the number of bits consumed.
C3_DecodeError ==
    (pc = "done" /\ caller = "py" /\ nbits >= 1 /\ ValidBrc(brc)
        /\ Len(out) = nout) =>
        IF ParseEnd(brc, bits, 0, nout) = -1
        THEN result = "HuffmanDecodingError"
        ELSE /\ result = "returned"
             /\ Len(retdata) = nout
             /\ count => retcount = ParseEnd(brc, bits, 0, nout)

\* C4: output code table. Every value a walker has written is in
\* 0 .. 2*magmax(brc)+1, and for a sample read inside the bit array with
\* sign bit s and magnitude m it is m if s = 0 and magmax(brc)+1+m if
\* s = 1, so that +0 and -0 give the distinct values 0 and magmax(brc)+1.
C4_CodeTable ==
    (pc \in {"loop", "ret"} /\ brc \in BRCs) =>
        \A k \in 1 .. sample :
            /\ out[k] \in 0 .. 2 * magmax(brc) + 1
            /\ InBounds(k) =>
                  \E m \in 0 .. magmax(brc) :
                      /\ CodewordOf(k) = Codeword(brc, m)
                      /\ out[k] = IF SignOf(k) = 0 THEN m
                                  ELSE magmax(brc) + 1 + m

C4_Witness ==
    /\ pc = "ret" /\ brc = 3 /\ sample = 2
    /\ InBounds(2)
    /\ IsSample(1, 1, 0) /\ out[1] = 10
    /\ IsSample(2, 0, 0) /\ out[2] = 0

\* C5 (as claimed): for every BRC, bit 4 (weight 16) of each output value
\* is the sample's sign bit and the low 4 bits are the sample's magnitude.
C5_SignMagnitude ==
    (pc \in {"loop", "ret"} /\ brc \in BRCs) =>
        \A k \in 1 .. sample :
            InBounds(k) =>
                \E m \in 0 .. magmax(brc) :
                    /\ CodewordOf(k) = Codeword(brc, m)
                    /\ out[k] \div 16 = SignOf(k)
                    /\ out[k] % 16 = m

\* C5 (amended): every output value is below 32; for BRC 4 bit 4 of the
\* output is the sign bit and the low 4 bits are the magnitude; for every
\* BRC b the sign has weight magmax(b)+1: the output divided by
\* magmax(b)+1 is the sign bit and the remainder is the magnitude.
C5_SignWeight ==
    (pc \in {"loop", "ret"} /\ brc \in BRCs) =>
        \A k \in 1 .. sample :
            /\ out[k] < 32
            /\ InBounds(k) =>
                  \E m \in 0 .. magmax(brc) :
                      /\ CodewordOf(k) = Codeword(brc, m)
                      /\ out[k] \div (magmax(brc) + 1) = SignOf(k)
                      /\ out[k] % (magmax(brc) + 1) = m
                      /\ brc = 4 => /\ out[k] \div 16 = SignOf(k)
                                    /\ out[k] % 16 = m

C5_Witness ==
    /\ pc = "ret" /\ brc = 4 /\ sample = 1 /\ InBounds(1)
    /\ IsSample(1, 1, 13) /\ out[1] = 16 + 13

\* C6 (as claimed): huffman_brc2 on the bits 0 0 1 0 with nout = 1 yields
\* code 1 and returns 4.
C6_Vector ==
    (pc = "ret" /\ brc = 2 /\ bits = <<0, 0, 1, 0>> /\ nout = 1) =>
        out[1] = 1 /\ ret = 4

\* C6 (amended): huffman_brc2 on the bits 0 0 1 0 with nout = 1 yields
\* code 0 and returns 2.
C6_VectorAmended ==
    (pc = "ret" /\ brc = 2 /\ bits = <<0, 0, 1, 0>> /\ nout = 1) =>
        out[1] = 0 /\ ret = 2

C6_Witness ==
    /\ pc = "ret" /\ caller = "c" /\ brc = 2 /\ bits = <<0, 0, 1, 0>>
    /\ nout = 1 /\ sample = 1

\* C7 (as claimed): huffman_brc2 on the bits 0 1 0 1 yields code 8 for the
\* first sample.
C7_Vector ==
    (pc = "ret" /\ brc = 2 /\ bits = <<0, 1, 0, 1>> /\ nout >= 1) =>
        out[1] = 8

\* C7 (amended): huffman_brc2 on the bits 0 1 0 1 yields code 1 for the
\* first sample (sign = 0, magnitude = 1), read from the first 3 bits.
C7_VectorAmended ==
    (pc = "ret" /\ brc = 2 /\ bits = <<0, 1, 0, 1>> /\ nout >= 1) =>
        out[1] = 1 /\ IsSample(1, 0, 1) /\ SampleEnd(1) = 3

C7_Witness ==
    /\ pc = "ret" /\ caller = "c" /\ brc = 2 /\ bits = <<0, 1, 0, 1>>
    /\ nout = 1 /\ sample = 1 /\ ret = 3

\* C8: decode() called with non-empty data and a BRC outside 0..4 ends
\* with the invalid-BRC error, no walker has run, nothing is returned and
\* the caller's out array is unmodified.
C8_InvalidBrc ==
    (caller = "py" /\ nbits >= 1 /\ brc \notin BRCs) =>
        /\ pc = "done"
        /\ result = "ValueError: Invalid BRC"
        /\ sample = 0 /\ idx = 0 /\ starts = <<>>
        /\ retdata = <<>> /\ retcount = -1
        /\ out = Filled(Len(out))

C8_Witness ==
    /\ pc = "done" /\ caller = "py" /\ nbits = 2 /\ brc = 5 /\ nout = 2
    /\ Len(out) = 3 /\ result = "ValueError: Invalid BRC"

\* C9: packet offsets. For a stream decoded from byte offset 0 with no
\* skipped packets the offset reported for packet 0 is 0 and the offset of
\* packet k+1 minus the offset of packet k is packet_data_length_k + 7: the
\* offsets are the running sums of the on-wire packet sizes.
C9_Offsets ==
    (sstate # "Idle" /\ bytes_offset = 0 /\ skip = 0) =>
        \A k \in 1 .. Len(offsets) :
            /\ k = 1 => offsets[k] = 0
            /\ k < Len(offsets) =>
                  offsets[k + 1] - offsets[k]
                      = records[k].ph.packet_data_length + 7
            /\ offsets[k] = accumulated_offsets[k]

C9_Witness ==
    /\ sstate = "Done" /\ bytes_offset = 0 /\ skip = 0
    /\ Len(offsets) = 3
    /\ records[1].ph.packet_data_length = 61
    /\ records[2].ph.packet_data_length = 63
    /\ offsets = <<0, 68, 138>>

\* C10: records are emitted in strict packet order without reordering,
\* duplication or omission: with skip = 0 the k-th record (0-based) is the
\* decode of the k-th packet of the stream read from bytes_offset, and the
\* records and offsets sequences always have the same length.
C10_PacketOrder ==
    /\ Len(offsets) = Len(records)
    /\ (sstate # "Idle" /\ skip = 0) =>
          \A k \in 0 .. Len(records) - 1 :
              /\ PacketAt(bytes_offset) + k <= Len(stream)
              /\ record_of_target(k)
                    = Record(stream[PacketAt(bytes_offset) + k])

C10_Witness ==
    /\ sstate = "Done" /\ skip = 0 /\ bytes_offset = 0
    /\ Len(records) = 3 /\ Len(offsets) = 3
    /\ record_of_target(2).sh.space_packet_count = 2

(* ----------------------- the window of a decode_stream ----------------- *)
\* number of packets of the stream that lie before bytes_offset
PacketsBefore ==
    Cardinality({k \in 1 .. Len(stream) : StartOf(stream, k) < bytes_offset})

\* the input holds every packet of the stream whole
WholeInput == flen = StartOf(stream, Len(stream) + 1)

Min(a, b) == IF a <= b THEN a ELSE b

\* C11: with skip = s and max-count = n over T complete packets the records
\* emitted are exactly the packets s .. min(s+n, T)-1 (counted from the
\* packet at bytes_offset), never more than n; while packets are skipped
\* nothing is emitted and the position advances by whole packets.
C11_Window ==
    LET T  == Len(stream) - PacketsBefore
        hi == Min(skip + maxcount, T)
    IN /\ Len(records) <= maxcount
       /\ nskipped <= skip
       /\ sstate = "Scanning" =>
             /\ records = <<>>
             /\ fpos = StartOf(stream, PacketsBefore + nskipped + 1)
       /\ \A i \in 1 .. Len(records) :
             /\ PacketsBefore + skip + i <= Len(stream)
             /\ records[i] = Record(stream[PacketsBefore + skip + i])
       /\ (sstate = "Done" /\ WholeInput) =>
             /\ Len(records) = (IF hi > skip THEN hi - skip ELSE 0)
             /\ nskipped = Min(skip, T)
             /\ serror = "none"

\* one packet skipped, then the window is cut by max-count before the end
C11_Witness ==
    /\ sstate = "Done" /\ WholeInput /\ bytes_offset = 0
    /\ Len(stream) = 3 /\ skip = 1 /\ maxcount = 1 /\ nskipped = 1
    /\ Len(records) = 1
    /\ records[1].sh.space_packet_count = 1
    /\ offsets[1] = StartOf(stream, 2)

Completed == {k \in 1 .. Len(frames) : ~frames[k].partial}

\* the data word stored in slot i of the frame f
SlotOf(f, i) == <<f.bytes[2 * i - 1], f.bytes[2 * i]>>

\* C15: after triples with data_word_index 1, 2, ..., 64 in order there is
\* exactly one frame, completed, of 128 bytes: the 64 two-byte data words in
\* index order; before the 64th triple no frame is reported; and no
\* completed frame ever exists before 64 triples were received.
C15_FrameAssembly ==
    /\ (inorder /\ nfed < FRAME_WORDS) => frames = <<>>
    /\ (inorder /\ nfed = FRAME_WORDS) =>
          /\ Len(frames) = 1
          /\ ~frames[1].partial
          /\ Len(frames[1].bytes) = 128
          /\ \A i \in 1 .. FRAME_WORDS :
                /\ frames[1].bytes[2 * i - 1] = DataWord(i) \div 256
                /\ frames[1].bytes[2 * i] = DataWord(i) % 256
    /\ Cardinality(Completed) * FRAME_WORDS <= nfed

C15_Witness ==
    /\ inorder /\ nfed = FRAME_WORDS /\ rstate = "FrameReady"
    /\ Len(frames) = 1 /\ ~frames[1].partial
    /\ frames[1].bytes[1] = 1 /\ frames[1].bytes[2] = 3
    /\ frames[1].bytes[127] = 64 /\ frames[1].bytes[128] = 192

\* C16: a triple with data_word_index = 1 received while a frame is being
\* accumulated resets the accumulator, which then holds that triple's word
\* only; a completed frame holds the words of the 64 triples from the one
\* that started it, so none received before the reset; outside Accumulating
\* (Idle before the first index 1) nothing is accumulated.
C16_Reset ==
    /\ rstate # "Accumulating" => acc = <<>>
    /\ (rstate = "Idle" /\ frames = <<>>) => acc = <<>>
    /\ (rstate = "Accumulating" /\ last_index = 1) => acc = <<DataWord(nfed)>>
    /\ \A k \in Completed :
          /\ \A i \in 1 .. FRAME_WORDS :
                SlotOf(frames[k], i) = WordBytes(DataWord(frames[k].first + i - 1))
          /\ \A j \in 1 .. frames[k].first - 1, i \in 1 .. FRAME_WORDS :
                SlotOf(frames[k], i) # WordBytes(DataWord(j))
    /\ \A k \in 1 .. Len(frames) :
          (k > 1 /\ ~frames[k].partial /\ frames[k - 1].partial) =>
              frames[k].first > frames[k - 1].first

\* two words accumulated, then a reset, then a completed frame
C16_Witness ==
    /\ Len(frames) = 2
    /\ frames[1].partial /\ Len(frames[1].bytes) = 4
    /\ ~frames[2].partial /\ frames[2].first = 3
    /\ nfed = 66

(* -------------------- layout of the Secondary Header ------------------- *)
\* a listing of the header: <<name, width>> entries in order, paddings
\* named "pad". The entries up to the polymorphic part of the SAS block:
ListedHead ==
    << <<"coarse_time", 32>>, <<"fine_time", 16>>, <<"sync_marker", 32>>,
       <<"data_take_id", 32>>, <<"ecc_num", 8>>, <<"pad", 1>>,
       <<"test_mode", 3>>, <<"rx_channel_id", 4>>,
       <<"instrument_configuration_id", 32>>, <<"data_word_index", 8>>,
       <<"data_word", 16>>, <<"space_packet_count", 32>>,
       <<"pri_count", 32>>, <<"error_flag", 1>>, <<"pad", 2>>,
       <<"baq_mode", 5>>, <<"baq_block_length", 8>>, <<"pad", 8>>,
       <<"range_decimation", 8>>, <<"rx_gain", 8>>, <<"tx_ramp_rate", 16>>,
       <<"tx_pulse_start_freq", 16>>, <<"tx_pulse_length", 24>>,
       <<"pad", 3>>, <<"rank", 5>>, <<"pri", 24>>, <<"swst", 24>>,
       <<"swl", 24>>, <<"ssb_flag", 1>>, <<"polarization", 3>>,
       <<"temperature_compensation", 2>> >>

\* the SES block and number_of_quads
ListedSes ==
    << <<"cal_mode", 2>>, <<"pad", 1>>, <<"tx_pulse_number", 5>>,
       <<"signal_type", 4>>, <<"pad", 3>>, <<"swap", 1>>,
       <<"swath_number", 8>>, <<"number_of_quads", 16>> >>

\* sum of the widths of the entries of a listing before the j-th
RECURSIVE WidthsBefore(_, _)
WidthsBefore(L, j) ==
    IF j = 1 THEN 0 ELSE WidthsBefore(L, j - 1) + L[j - 1][2]

\* the entry of a listing for a field
EntryOf(L, name) == CHOOSE j \in 1 .. Len(L) : L[j][1] = name

\* the listing L tiles the 62 bytes, and every field of the decoded flat
\* record was read from the bits the listing gives it
Tiles(L) ==
    /\ WidthsBefore(L, Len(L) + 1) = 8 * SECONDARY_HEADER_SIZE
    /\ \A i \in 1 .. Len(FlatFields) :
          LET f == FlatFields[i]
              j == EntryOf(L, f.name)
          IN /\ \E k \in 1 .. Len(L) : L[k][1] = f.name
             /\ L[j][2] = f.size
             /\ WidthsBefore(L, j) = FieldOffset(FlatFields, i)
             /\ f.offset # -1 => f.offset = WidthsBefore(L, j)
             /\ WidthsBefore(L, j) + L[j][2] <= 8 * SECONDARY_HEADER_SIZE
             /\ i > 1 => EntryOf(L, FlatFields[i - 1].name) < j
             /\ fsh[f.name] = FieldValue(UnpackBits(shdata), f.type, f.size,
                                         WidthsBefore(L, j))

\* C17 as stated: the listed widths, with the SAS tail reserved 2, 4, 10,
\* reserved 2 and 16 padding bits after number_of_quads, tile 496 bits and
\* give every field of the flat descriptor its offset.
C17_Layout ==
    hstate = "Decoded" =>
        Tiles(ListedHead
              \o << <<"pad", 2>>, <<"_dynamic_data", 4>>,
                    <<"_beam_address", 10>>, <<"pad", 2>> >>
              \o ListedSes \o << <<"pad", 16>> >>)

\* C17 amended: with the SAS tail reserved 2, 4 bits, reserved 2, 10 bits and
\* 8 padding bits after number_of_quads the listed widths tile exactly 496
\* bits = 62 bytes; every field's offset is the sum of the widths listed
\* before it, fields do not overlap, nothing lies beyond bit 495, and the
\* explicit offsets of the flat descriptor agree with those sums.
C17_LayoutAmended ==
    hstate = "Decoded" =>
        Tiles(ListedHead
              \o << <<"pad", 2>>, <<"_dynamic_data", 4>>, <<"pad", 2>>,
                    <<"_beam_address", 10>> >>
              \o ListedSes \o << <<"pad", 8>> >>)

C17_Witness ==
    /\ hstate = "Decoded"
    /\ fsh["number_of_quads"] = 44241
    /\ fsh["_beam_address"] = 513
    /\ fsh["test_mode"] # 0

\* the bits off .. off+size-1 of the header, as an unsigned integer
HeaderBits(off, size) ==
    BitsValue(SubSeq(UnpackBits(shdata), off + 1, off + size))

\* a call of method on a record with ssb_flag = 0 that returned
ImgCall(method) ==
    /\ hstate = "Called" /\ called[1] = method
    /\ ~fsh["ssb_flag"] /\ ~returned.raised

\* C18 as stated: for ssb_flag = 0 the elevation beam address is the 4 bits
\* after 2 reserved bits and the azimuth beam address the 10 bits right
\* after it (bits 12 .. 21 of the SAS block), the last 2 bits reserved.
C18_SasTail ==
    /\ ImgCall("get_elevation_beam_address") =>
          returned.value = HeaderBits(424 + 8, 4)
    /\ ImgCall("get_azimuth_beam_address") =>
          returned.value = HeaderBits(424 + 12, 10)

\* C18 amended: for ssb_flag = 0 the 18 bits after temperature_compensation
\* are reserved 2, elevation beam address 4, reserved 2, azimuth beam
\* address 10: the azimuth beam address is the last 10 bits of the block.
C18_SasTailAmended ==
    /\ ImgCall("get_elevation_beam_address") =>
          returned.value = HeaderBits(424 + 8, 4)
    /\ ImgCall("get_azimuth_beam_address") =>
          returned.value = HeaderBits(424 + 14, 10)

\* an azimuth beam address read past two reserved bits that are not zero
C18_Witness ==
    /\ ImgCall("get_azimuth_beam_address")
    /\ returned.value = 513
    /\ HeaderBits(424 + 12, 2) = 2

\* C19: get_sas_data returns a SasImgData instance if ssb_flag is True,
\* otherwise a SasCalData instance.
C19_SasDataType ==
    (hstate = "Called" /\ called[1] = "get_sas_data") =>
        /\ ~returned.raised
        /\ returned.value.class = (IF fsh["ssb_flag"] THEN "SasImgData"
                                   ELSE "SasCalData")

(* ------------------ flat and nested Secondary Header ------------------- *)
\* the value of every field of the nested record decoded by the descriptor
\* with fields fs equals the flat record's field of the same name
SameFields(rec, fs) ==
    \A i \in 1 .. Len(fs) :
       IF is_descriptor(fs[i])
       THEN \A k \in 1 .. Len(fs[i].fields) :
               IF is_descriptor(fs[i].fields[k])
               THEN \A m \in 1 .. Len(fs[i].fields[k].fields) :
                       rec.args[i].args[k].args[m]
                           = fsh[fs[i].fields[k].fields[m].name]
               ELSE rec.args[i].args[k] = fsh[fs[i].fields[k].name]
       ELSE rec.args[i] = fsh[fs[i].name]

\* the sub-record of the nested record sh for a service
datation == sh.args[1]
fixed_ancillary_data == sh.args[2]
subcom_ancillary_data == sh.args[3]
counters == sh.args[4]
radar_configuration_support == sh.args[5]
radar_sample_count == sh.args[6]
sas == radar_configuration_support.args[13]
ses == radar_configuration_support.args[14]

\* what a call of method returned, if that was the call made
CallReturned(method, v) ==
    (hstate = "Called" /\ called[1] = method) => returned = Returns(v)

\* C20: the flat descriptor is the one generated from the nested descriptor;
\* for every header decoded with both, every field of the nested record
\* equals the flat record's field, and the flat record's get_datation,
\* get_fixed_ancillary_data, get_subcom_ancillary_data, get_counters,
\* get_sas, get_ses, get_radar_configuration_support and
\* get_radar_sample_count return records equal to the nested sub-records.
C20_FlatNested ==
    hstate \in {"Decoded", "Called"} =>
       /\ gen_flat_descriptor_code(NestedFields) = FlatFields
       /\ SameFields(sh, NestedFields)
       /\ sas = get_sas(fsh) /\ ses = get_ses(fsh)
       /\ datation = get_datation(fsh)
       /\ fixed_ancillary_data = get_fixed_ancillary_data(fsh)
       /\ subcom_ancillary_data = get_subcom_ancillary_data(fsh)
       /\ counters = get_counters(fsh)
       /\ radar_configuration_support = get_radar_configuration_support(fsh)
       /\ radar_sample_count = get_radar_sample_count(fsh)
       /\ CallReturned("get_sas", sas) /\ CallReturned("get_ses", ses)
       /\ CallReturned("get_datation", datation)
       /\ CallReturned("get_fixed_ancillary_data", fixed_ancillary_data)
       /\ CallReturned("get_subcom_ancillary_data", subcom_ancillary_data)
       /\ CallReturned("get_counters", counters)
       /\ CallReturned("get_radar_configuration_support",
                       radar_configuration_support)
       /\ CallReturned("get_radar_sample_count", radar_sample_count)

\* a header with bits set in every service, decoded both ways
C20_Witness ==
    /\ hstate = "Called"
    /\ called[1] = "get_radar_configuration_support"
    /\ returned.value = radar_configuration_support
    /\ ses.args[1] = 0 /\ ses.args[2] = 29
    /\ sas.args[5] = 513
    /\ fsh["number_of_quads"] = 44241
    /\ datation.args[2] = 47582

IsPrefix(p, q) == Len(p) <= Len(q) /\ SubSeq(q, 1, Len(p)) = p

\* C22: tie-break of the five trees. For the codeword a walker has just
\* read inside the bit array and every node on its path: if the walker left
\* the node by a one, no codeword that leaves it by a zero is longer; if it
\* left by a zero, no codeword that leaves it by a one is shorter.
C22_TieBreak ==
    (pc \in {"loop", "ret"} /\ brc \in BRCs /\ sample >= 1
        /\ InBounds(sample)) =>
        \* Siblings(j): the codewords of the tree that leave the path of
        \* cw at its j-th node by the other branch
        LET cw == CodewordOf(sample)
            Siblings(j) ==
                {m \in 0 .. magmax(brc) :
                    /\ Len(Codeword(brc, m)) >= j
                    /\ SubSeq(Codeword(brc, m), 1, j - 1)
                          = SubSeq(cw, 1, j - 1)
                    /\ Codeword(brc, m)[j] # cw[j]}
        IN
        \A j \in 1 .. Len(cw) : \A m \in Siblings(j) :
            IF cw[j] = 1 THEN Len(Codeword(brc, m)) <= Len(cw)
            ELSE Len(cw) <= Len(Codeword(brc, m))

C22_Witness ==
    /\ pc = "ret" /\ brc = 4 /\ sample = 1 /\ InBounds(1)
    /\ CodewordOf(1) = <<1, 0, 0>> /\ out[1] = 3
    /\ {m \in 0 .. magmax(brc) : Codeword(brc, m)[1] = 0} = {0, 1, 2}

\* C23 (as claimed): read bounds. No walker reads an element bits[i] with
\* i >= nbits, and a non-negative return value never exceeds nbits.
C23_ReadBounds ==
    /\ ~oob
    /\ (pc = "ret" /\ brc \in BRCs /\ ret >= 0) => ret <= nbits

Fit(pos) ==
    {m \in 0 .. magmax(brc) :
        IsPrefix(Codeword(brc, m), SubSeq(bits, pos + 2, nbits))}

\* C25: prefix code. The codewords of a tree are one per magnitude and
\* pairwise distinct; the codeword a walker has read inside the bit array
\* is neither the beginning nor a continuation of another codeword and is the
\* only one that starts the bits after the sign; wherever enough bits are
\* left, exactly one codeword starts them; and the bit string of a sample
\* sequence parses in one way only, as that sequence.
C25_PrefixCode ==
    (pc \in {"loop", "ret"} /\ brc \in BRCs) =>
        /\ Cardinality({Codeword(brc, m) : m \in 0 .. magmax(brc)})
              = magmax(brc) + 1
        /\ nbits - idx >= MaxRead(brc) => Cardinality(Fit(idx)) = 1
        /\ (sample >= 1 /\ InBounds(sample)) =>
              LET cw == CodewordOf(sample) IN
              /\ Fit(SampleStart(sample))
                    = {out[sample] % (magmax(brc) + 1)}
              /\ \A m \in 0 .. magmax(brc) :
                    \/ Codeword(brc, m) = cw
                    \/ /\ ~IsPrefix(Codeword(brc, m), cw)
                       /\ ~IsPrefix(cw, Codeword(brc, m))
        /\ (pc = "ret" /\ encoded) =>
              \A k \in 1 .. Len(src) :
                  /\ SignOf(k) = src[k][1]
                  /\ Fit(SampleStart(k)) = {src[k][2]}

C25_Witness ==
    /\ pc = "ret" /\ encoded /\ brc = 1 /\ Len(src) = 2
    /\ src[1] = <<1, 4>> /\ src[2] = <<0, 0>>
    /\ bits = <<1, 1, 1, 1, 1, 0, 0>>
    /\ Fit(0) = {4} /\ Fit(5) = {0}
    /\ out[1] = 9 /\ out[2] = 0

\* C26: termination. Every call of a walker ends (it returns, or an
\* invalid access is trapped); each iteration of the loop produces exactly
\* one sample and advances idx by at least 2, so there are never more than
\* min(nout, ceil(nbits / 2)) iterations.
C26_Termination ==
    /\ []((pc \in {"loop", "ret", "fault"} /\ brc \in BRCs) =>
            /\ Len(starts) = sample
            /\ idx >= 2 * sample
            /\ sample <= nout
            /\ sample <= (nbits + 1) \div 2)
    /\ [][(pc = "loop" /\ pc' = "loop"
              /\ <<idx, sample>>' # <<idx, sample>>) =>
            (sample' = sample + 1 /\ idx' >= idx + 2)]_vars
    /\ (pc = "loop") ~> (pc \in {"ret", "fault"})

C26_Witness ==
    /\ pc = "ret" /\ caller = "c" /\ brc = 0
    /\ bits = <<0, 0, 0, 0, 0>> /\ nout = 3
    /\ sample = 3 /\ idx = 6 /\ ret = 6

\* C27: write frame. A walker that has produced k samples has written
\* out[0] .. out[k-1] and nothing else: every step of the loop leaves the
\* bit array alone and changes out, if at all, only at index sample, with
\* sample < nout, and then increments sample; the elements from k on keep
\* their content. With nout = 0 it reads nothing, writes nothing and
\* returns 0.
C27_WriteFrame ==
    /\ []((pc \in {"loop", "ret"} /\ brc \in BRCs) =>
            /\ sample <= nout
            /\ \A k \in 1 .. Len(out) : (out[k] # FILL) <=> (k <= sample)
            /\ (pc = "ret" /\ nout = 0) =>
                  (ret = 0 /\ starts = <<>> /\ ~oob /\ idx = 0))
    /\ [][pc = "loop" =>
            /\ bits' = bits
            /\ Len(out') = Len(out)
            /\ out' # out =>
                  /\ sample < nout
                  /\ sample' = sample + 1
                  /\ \A k \in 1 .. Len(out) :
                        k # sample + 1 => out'[k] = out[k]]_vars

C27_Witness ==
    /\ pc = "ret" /\ caller = "c" /\ brc = 0
    /\ bits = <<0, 0, 1, 0>> /\ nout = 3
    /\ sample = 2 /\ out = <<0, 4, FILL, FILL>> /\ ret = -4

\* C28: SAS getter guards. get_elevation_beam_address and
\* get_azimuth_beam_address raise TypeError exactly when check is true and
\* ssb_flag is true; get_sas_test, get_cal_type and
\* get_calibration_beam_address exactly when check is true and ssb_flag is
\* false; with check = False none raises it, and get_sas_data never does.
C28_Guards ==
    hstate = "Called" =>
        LET RaisedTypeError(method) ==
                /\ called[1] = method
                /\ returned.raised /\ returned.value = "TypeError"
        IN
        /\ \A m \in {"get_elevation_beam_address",
                     "get_azimuth_beam_address"} :
              called[1] = m =>
                  (RaisedTypeError(m) <=> (called[2] /\ fsh["ssb_flag"]))
        /\ \A m \in {"get_sas_test", "get_cal_type",
                     "get_calibration_beam_address"} :
              called[1] = m =>
                  (RaisedTypeError(m) <=> (called[2] /\ ~fsh["ssb_flag"]))
        /\ ~RaisedTypeError("get_sas_data")

C28_Witness ==
    /\ hstate = "Called"
    /\ called = <<"get_elevation_beam_address", TRUE>>
    /\ fsh["ssb_flag"]
    /\ returned = Raises("TypeError")

\* C29: SAS calibration sub-fields. With d the 4 bits of the header at bit
\* offset 432 (the field that holds the elevation beam address when
\* ssb_flag = 0), get_sas_test has code d div 8, the first bit, and
\* get_cal_type has code d mod 8, the following 3 bits, whenever they
\* return, in particular with check = False for either ssb_flag.
C29_CalSubFields ==
    hstate = "Called" =>
        LET d == HeaderBits(432, 4) IN
        /\ called[1] = "get_sas_test" =>
              /\ ~called[2] => ~returned.raised
              /\ ~returned.raised =>
                    returned.value.args = <<d \div 8>>
        /\ called[1] = "get_cal_type" =>
              /\ ~called[2] => ~returned.raised
              /\ ~returned.raised =>
                    returned.value.args = <<d % 8>>
        /\ (called = <<"get_elevation_beam_address", FALSE>>) =>
              returned.value = d

C29_Witness ==
    /\ hstate = "Called"
    /\ called = <<"get_cal_type", FALSE>>
    /\ ~fsh["ssb_flag"]
    /\ HeaderBits(432, 4) = 13
    /\ ~returned.raised /\ returned.value.args = <<5>>

\* C30 (as claimed): for every swl and range decimation code the index c
\* passed to the D-value lookup satisfies 0 <= c < den, int(b / den) is the
\* floor of b / den, and the result is a positive even integer.
C30_Remainder ==
    LET den == lookup_range_decimation_info(rdcode).denominator IN
    /\ nstate \in {"Lookup", "Done"} /\ ~n3rx.raised =>
          /\ 0 <= n3_c /\ n3_c < den
          /\ int_truediv(n3_b, den) = n3_b \div den
          /\ n3_c = n3_b - den * int_truediv(n3_b, den)
    /\ nstate = "Done" =>
          ~n3rx.raised /\ n3rx.value > 0 /\ n3rx.value % 2 = 0

\* C30 (amended): the same for every swl with b >= 0, that is
\* 2 * swl >= 80 + nf div 4 + 17.
C30_RemainderAmended ==
    (nstate \in {"Lookup", "Done"}
        /\ 2 * swl >= lookup_filter_output_offset(rdcode) + 17) =>
        LET den == lookup_range_decimation_info(rdcode).denominator IN
        /\ n3_b >= 0
        /\ 0 <= n3_c /\ n3_c < den
        /\ int_truediv(n3_b, den) = n3_b \div den
        /\ n3_c = n3_b - den * int_truediv(n3_b, den)
        /\ nstate = "Done" =>
              ~n3rx.raised /\ n3rx.value > 0 /\ n3rx.value % 2 = 0

\* packet 408 of the reference product: swl = 12178, range decimation
\* x4_on_9, 2 * 10779 samples
C30_Witness ==
    /\ nstate = "Done" /\ swl = 12178 /\ rdcode = 4
    /\ n3_b = 24249 /\ n3_c = 3
    /\ n3rx = Returns(21558)

====
